---- MODULE Spec2Model ----
(***************************************************************************)
(* blkreader: reading file data from the underlying block device by the    *)
(* file's extents.  The model covers the read engine (reader.rs), the      *)
(* global device cache (cache.rs) and the result record (state.rs).        *)
(*                                                                         *)
(* Each thread runs ReadContext::read_at.  The cache map and its RwLock    *)
(* are the only state shared between threads.                              *)
(***************************************************************************)
EXTENDS Integers, Sequences, FiniteSets, TLC

\* ------------------------------------------------------------------ bounds
NThreads == 2       \* threads calling read concurrently (SpecCache)
MaxOff == 1         \* largest request offset drawn
MaxLen == 3         \* largest buffer length drawn
MaxExtents == 2     \* longest extent list the provider returns
MaxExtLen == 2      \* longest extent drawn
MaxChain == 3       \* longest chain of option setters
ChunkBits == 2      \* the tool's chunk is 2^ChunkBits bytes, its integers 2 bits wider

Threads == 1..NThreads
DevIds == {"8:0", "8:16"}

Min(a, b) == IF a < b THEN a ELSE b
Max(a, b) == IF a > b THEN a ELSE b

\* ------------------------------------------------------------------ data
\* blkmap::ExtentFlags, the three flags the reader tests.
ExtentFlags == {"UNWRITTEN", "UNKNOWN", "DELALLOC"}

is_unwritten(flags) == "UNWRITTEN" \in flags
is_unknown(flags) == "UNKNOWN" \in flags
is_delalloc(flags) == "DELALLOC" \in flags

FiemapExtent(l, p, n, f) == [logical |-> l, physical |-> p, length |-> n, flags |-> f]

\* PathBuf::new(): the empty path.
EmptyPath == ""

\* blkpath::ResolveDevice: the device node of the filesystem a file lives on.
PathOf(dev) == IF dev = "8:0" THEN "/dev/sda" ELSE "/dev/sdb"

\* Buffer cells: what a byte of the output holds.
InitByte == <<"init", 0>>          \* never written by the call
ZeroByte == <<"zero", 0>>          \* written by fill(0)
DevByte(p) == <<"dev", p>>         \* the device's byte at physical offset p
FileByte(l) == <<"file", l>>       \* the file's byte at logical offset l

\* I/O events of one call, in order.
Ev(kind, idx, cur, pos, len, phys, actual) == <<kind, idx, cur, pos, len, phys, actual>>
EvKind(e) == e[1]
EvIdx(e) == e[2]
EvCur(e) == e[3]
EvPos(e) == e[4]
EvLen(e) == e[5]
EvPhys(e) == e[6]
EvActual(e) == e[7]

\* options.rs 5-58: Options.  The reader reads the first four fields, the
\* third under the name fill_unwritten (options.rs declares it
\* zero_unwritten); it never reads read_exact or dry_run.
Options(c, h, u, f) ==
    [enable_cache |-> c, fill_holes |-> h, fill_unwritten |-> u, allow_fallback |-> f,
     read_exact |-> FALSE, dry_run |-> FALSE]

\* options.rs 60-77: Default for Options, and Options::new.
DefaultOptions ==
    [enable_cache |-> TRUE, fill_holes |-> FALSE, fill_unwritten |-> FALSE,
     allow_fallback |-> FALSE, read_exact |-> FALSE, dry_run |-> FALSE]

AllOptions == {Options(c, h, u, f) : c \in BOOLEAN, h \in BOOLEAN, u \in BOOLEAN, f \in BOOLEAN}

\* options.rs 79-124: the builder's setters.
with_cache(self, enable) == [self EXCEPT !.enable_cache = enable]
with_fill_holes(self, fill) == [self EXCEPT !.fill_holes = fill]
with_zero_unwritten(self, zero) == [self EXCEPT !.fill_unwritten = zero]
with_allow_fallback(self, allow) == [self EXCEPT !.allow_fallback = allow]

\* Variant: the setter copied from with_dry_run sets dry_run as well.
with_read_exact_and_dry_run(self, exact) ==
    [self EXCEPT !.read_exact = exact, !.dry_run = exact]

with_read_exact(self, exact) == [self EXCEPT !.read_exact = exact]
with_dry_run(self, dry_run) == [self EXCEPT !.dry_run = dry_run]

Setters ==
    {"with_cache", "with_fill_holes", "with_zero_unwritten", "with_allow_fallback",
     "with_read_exact", "with_dry_run"}

\* The call of a setter by its name.
Set(self, setter, v) ==
    CASE setter = "with_cache" -> with_cache(self, v)
      [] setter = "with_fill_holes" -> with_fill_holes(self, v)
      [] setter = "with_zero_unwritten" -> with_zero_unwritten(self, v)
      [] setter = "with_allow_fallback" -> with_allow_fallback(self, v)
      [] setter = "with_read_exact" -> with_read_exact(self, v)
      [] setter = "with_dry_run" -> with_dry_run(self, v)

\* ------------------------------------------------------------------ state.rs
StateNew(path, exts, n, fb) ==
    [block_device_path |-> path, extents |-> exts, bytes_read |-> n, used_fallback |-> fb]

StateFallback(n) == StateNew(EmptyPath, <<>>, n, TRUE)

Ok(st) == [ok |-> TRUE, err |-> "", state |-> st]
Err(kind) == [ok |-> FALSE, err |-> kind, state |-> StateNew(EmptyPath, <<>>, 0, FALSE)]
NoResult == [ok |-> FALSE, err |-> "pending", state |-> StateNew(EmptyPath, <<>>, 0, FALSE)]

\* ------------------------------------------------------------------ reader.rs
\* ReadContext::can_use_fallback: the loop over the extents from index i on.
RECURSIVE fallback_loop(_, _, _, _)

\* Variant: the loop without the test for a hole before the extent.
RECURSIVE fallback_loop_ignoring_holes(_, _, _, _)
fallback_loop_ignoring_holes(extents, i, current, end) ==
    IF i > Len(extents) THEN FALSE
    ELSE LET extent == extents[i]
             extent_end == extent.logical + extent.length
         IN  IF is_unwritten(extent.flags) THEN FALSE
             ELSE IF is_unknown(extent.flags) \/ is_delalloc(extent.flags) THEN FALSE
             ELSE IF extent_end >= end THEN TRUE
             ELSE fallback_loop_ignoring_holes(extents, i + 1, extent_end, end)

fallback_loop(extents, i, current, end) ==
    IF i > Len(extents) THEN FALSE
    ELSE LET extent == extents[i]
             extent_end == extent.logical + extent.length
         IN  IF extent.logical > current THEN FALSE
             ELSE IF is_unwritten(extent.flags) THEN FALSE
             ELSE IF is_unknown(extent.flags) \/ is_delalloc(extent.flags) THEN FALSE
             ELSE IF extent_end >= end THEN TRUE
             ELSE fallback_loop(extents, i + 1, extent_end, end)

can_use_fallback(extents, offset, length) ==
    IF extents = <<>> THEN FALSE
    ELSE fallback_loop(extents, 1, offset, offset + length)

\* buf[buf_start..buf_end].fill(0)
FillZero(buf, buf_start, buf_end) ==
    [k \in 1..Len(buf) |-> IF buf_start < k /\ k <= buf_end THEN ZeroByte ELSE buf[k]]

\* FileExt::read_at on the device into buf[buf_start..]: actual bytes land.
FillDev(buf, buf_start, actual, physical_offset) ==
    [k \in 1..Len(buf) |->
        IF buf_start < k /\ k <= buf_start + actual
        THEN DevByte(physical_offset + (k - buf_start - 1))
        ELSE buf[k]]

\* A slice buf[buf_start..buf_end] the code may take without panicking.
SliceOk(buf, buf_start, buf_end) == buf_start <= buf_end /\ buf_end <= Len(buf)

Logged(w, e) == Append(w.log, e)

\* The loop state of read_from_device: the index of the extent visited next,
\* current_offset, bytes_read, the buffer, the events so far, and where the
\* function stands: "loop", "break" (loop left), "ok" (returned from inside
\* the loop), "err" (the device read failed), "panic".
WalkInit(buf, offset) ==
    [i |-> 1, cur |-> offset, n |-> 0, buf |-> buf, log |-> <<>>, status |-> "loop"]

\* Variant: the device is read at the extent's physical start, wherever in
\* the extent the read starts.
read_extent_at_extent_start(extent, end, out, w) ==
    LET extent_end == extent.logical + extent.length
        read_start == Max(w.cur, extent.logical)
        read_end == Min(extent_end, end)
        read_len == read_end - read_start
        physical_offset == extent.physical
        buf_start == w.n
        buf_end == buf_start + read_len
        actual_read == Min(out, read_len)
    IN  IF out < 0
        THEN [w EXCEPT !.status = "err",
                       !.log = Logged(w, Ev("dev_read", w.i, read_start, buf_start, read_len,
                                            physical_offset, -1))]
        ELSE [w EXCEPT !.buf = FillDev(w.buf, buf_start, actual_read, physical_offset),
                       !.n = w.n + actual_read,
                       !.cur = read_start + actual_read,
                       !.i = w.i + 1,
                       !.status = IF actual_read < read_len THEN "break" ELSE "loop",
                       !.log = Logged(w, Ev("dev_read", w.i, read_start, buf_start, read_len,
                                            physical_offset, actual_read))]

\* Variant: after the read the cursor stands at the end of what was asked
\* for, whatever the device returned.
read_extent_advancing_whole(extent, end, out, w) ==
    LET extent_end == extent.logical + extent.length
        read_start == Max(w.cur, extent.logical)
        read_end == Min(extent_end, end)
        read_len == read_end - read_start
        physical_offset == extent.physical + (read_start - extent.logical)
        buf_start == w.n
        buf_end == buf_start + read_len
        actual_read == Min(out, read_len)
    IN  IF ~SliceOk(w.buf, buf_start, buf_end) THEN [w EXCEPT !.status = "panic"]
        ELSE IF out < 0
        THEN [w EXCEPT !.status = "err",
                       !.log = Logged(w, Ev("dev_read", w.i, read_start, buf_start, read_len,
                                            physical_offset, -1))]
        ELSE [w EXCEPT !.buf = FillDev(w.buf, buf_start, actual_read, physical_offset),
                       !.n = w.n + actual_read,
                       !.cur = read_end,
                       !.i = w.i + 1,
                       !.status = IF actual_read < read_len THEN "break" ELSE "loop",
                       !.log = Logged(w, Ev("dev_read", w.i, read_start, buf_start, read_len,
                                            physical_offset, actual_read))]

\* reader.rs 276-295: a normal extent is read from the device.  out is what
\* the positioned read does: a negative number is an error, any other the
\* most bytes the device returns.
read_extent(extent, end, out, w) ==
    LET extent_end == extent.logical + extent.length
        read_start == Max(w.cur, extent.logical)
        read_end == Min(extent_end, end)
        read_len == read_end - read_start
        physical_offset == extent.physical + (read_start - extent.logical)
        buf_start == w.n
        buf_end == buf_start + read_len
        actual_read == Min(out, read_len)
    IN  IF ~SliceOk(w.buf, buf_start, buf_end) THEN [w EXCEPT !.status = "panic"]
        ELSE IF out < 0
        THEN [w EXCEPT !.status = "err",
                       !.log = Logged(w, Ev("dev_read", w.i, read_start, buf_start, read_len,
                                            physical_offset, -1))]
        ELSE [w EXCEPT !.buf = FillDev(w.buf, buf_start, actual_read, physical_offset),
                       !.n = w.n + actual_read,
                       !.cur = read_start + actual_read,
                       !.i = w.i + 1,
                       !.status = IF actual_read < read_len THEN "break" ELSE "loop",
                       !.log = Logged(w, Ev("dev_read", w.i, read_start, buf_start, read_len,
                                            physical_offset, actual_read))]

\* Variant: with fill_unwritten off the loop is left instead of the function.
unwritten_extent_breaking(options, extent, end, w) ==
    LET extent_end == extent.logical + extent.length
        read_start == Max(w.cur, extent.logical)
        read_end == Min(extent_end, end)
        read_len == read_end - read_start
        buf_start == w.n
        buf_end == buf_start + read_len
    IN  IF ~options.fill_unwritten
        THEN [w EXCEPT !.status = "break",
                       !.log = Logged(w, Ev("unwritten_stop", w.i, w.cur, w.n, 0, 0, 0))]
        ELSE [w EXCEPT !.buf = FillZero(w.buf, buf_start, buf_end),
                       !.n = w.n + read_len,
                       !.cur = read_end,
                       !.i = w.i + 1,
                       !.log = Logged(w, Ev("zero_unwritten", w.i, read_start, buf_start,
                                            read_len, 0, 0))]

\* reader.rs 238-256: an unwritten extent.
unwritten_extent(options, extent, end, w) ==
    LET extent_end == extent.logical + extent.length
        read_start == Max(w.cur, extent.logical)
        read_end == Min(extent_end, end)
        read_len == read_end - read_start
        buf_start == w.n
        buf_end == buf_start + read_len
    IN  IF ~options.fill_unwritten
        THEN [w EXCEPT !.status = "ok",
                       !.log = Logged(w, Ev("unwritten_stop", w.i, w.cur, w.n, 0, 0, 0))]
        ELSE IF ~SliceOk(w.buf, buf_start, buf_end) THEN [w EXCEPT !.status = "panic"]
        ELSE [w EXCEPT !.buf = FillZero(w.buf, buf_start, buf_end),
                       !.n = w.n + read_len,
                       !.cur = read_end,
                       !.i = w.i + 1,
                       !.log = Logged(w, Ev("zero_unwritten", w.i, read_start, buf_start,
                                            read_len, 0, 0))]

\* Variant: an UNKNOWN or DELALLOC extent is read from the device like a
\* normal one.
holelike_extent_reading(options, extent, end, w) ==
    LET extent_end == extent.logical + extent.length
        read_start == Max(w.cur, extent.logical)
        read_end == Min(extent_end, end)
        read_len == read_end - read_start
        physical_offset == extent.physical + (read_start - extent.logical)
    IN  [w EXCEPT !.buf = FillDev(w.buf, w.n, read_len, physical_offset),
                  !.n = w.n + read_len,
                  !.cur = read_end,
                  !.i = w.i + 1,
                  !.log = Logged(w, Ev("dev_read", w.i, read_start, w.n, read_len,
                                       physical_offset, read_len))]

\* reader.rs 258-274: an UNKNOWN or DELALLOC extent.
holelike_extent(options, extent, end, w) ==
    LET extent_end == extent.logical + extent.length
        read_start == Max(w.cur, extent.logical)
        read_end == Min(extent_end, end)
        hole_len == read_end - read_start
        buf_start == w.n
        buf_end == buf_start + hole_len
    IN  IF hole_len < 0 THEN [w EXCEPT !.status = "panic"]
        ELSE IF ~options.fill_holes
        THEN [w EXCEPT !.status = "ok",
                       !.log = Logged(w, Ev("holelike_stop", w.i, w.cur, w.n, 0, 0, 0))]
        ELSE IF ~SliceOk(w.buf, buf_start, buf_end) THEN [w EXCEPT !.status = "panic"]
        ELSE [w EXCEPT !.buf = FillZero(w.buf, buf_start, buf_end),
                       !.n = w.n + hole_len,
                       !.cur = read_end,
                       !.i = w.i + 1,
                       !.log = Logged(w, Ev("zero_holelike", w.i, read_start, buf_start,
                                            hole_len, 0, 0))]

\* Variant: the test for a hole-like extent looks at DELALLOC alone.
extent_body_unknown_as_data(options, extent, end, out, w) ==
    IF is_unwritten(extent.flags) THEN unwritten_extent(options, extent, end, w)
    ELSE IF is_delalloc(extent.flags)
    THEN holelike_extent(options, extent, end, w)
    ELSE read_extent(extent, end, out, w)

\* reader.rs 238-295: the extent itself, once any hole before it is dealt with.
extent_body(options, extent, end, out, w) ==
    IF is_unwritten(extent.flags) THEN unwritten_extent(options, extent, end, w)
    ELSE IF is_unknown(extent.flags) \/ is_delalloc(extent.flags)
    THEN holelike_extent(options, extent, end, w)
    ELSE read_extent(extent, end, out, w)

\* Variant: the hole is zero-filled whatever fill_holes says.
hole_before_always_filling(options, extent, end, w) ==
    LET hole_end == Min(extent.logical, end)
        hole_len == hole_end - w.cur
        buf_start == w.n
        buf_end == buf_start + hole_len
    IN  [w EXCEPT !.buf = FillZero(w.buf, buf_start, buf_end),
                  !.n = w.n + hole_len,
                  !.cur = hole_end,
                  !.status = IF hole_end >= end THEN "break" ELSE "loop",
                  !.log = Logged(w, Ev("zero_hole", w.i, w.cur, buf_start, hole_len, 0, 0))]

\* Variant: the hole is zero-filled, bytes_read is not advanced.
hole_before_not_counting(options, extent, end, w) ==
    LET hole_end == Min(extent.logical, end)
        hole_len == hole_end - w.cur
        buf_start == w.n
        buf_end == buf_start + hole_len
    IN  IF ~options.fill_holes
        THEN [w EXCEPT !.status = "ok",
                       !.log = Logged(w, Ev("hole_stop", w.i, w.cur, w.n, 0, 0, 0))]
        ELSE [w EXCEPT !.buf = FillZero(w.buf, buf_start, buf_end),
                       !.cur = hole_end,
                       !.status = IF hole_end >= end THEN "break" ELSE "loop",
                       !.log = Logged(w, Ev("zero_hole", w.i, w.cur, buf_start, hole_len, 0, 0))]

\* reader.rs 216-236: the hole before an extent.
hole_before(options, extent, end, w) ==
    LET hole_end == Min(extent.logical, end)
        hole_len == hole_end - w.cur
        buf_start == w.n
        buf_end == buf_start + hole_len
    IN  IF ~options.fill_holes
        THEN [w EXCEPT !.status = "ok",
                       !.log = Logged(w, Ev("hole_stop", w.i, w.cur, w.n, 0, 0, 0))]
        ELSE IF ~SliceOk(w.buf, buf_start, buf_end) THEN [w EXCEPT !.status = "panic"]
        ELSE [w EXCEPT !.buf = FillZero(w.buf, buf_start, buf_end),
                       !.n = w.n + hole_len,
                       !.cur = hole_end,
                       !.status = IF hole_end >= end THEN "break" ELSE "loop",
                       !.log = Logged(w, Ev("zero_hole", w.i, w.cur, buf_start, hole_len, 0, 0))]

\* reader.rs 209-296: one iteration of the for loop.
visit_extent(options, extent, end, out, w) ==
    IF w.cur >= end THEN [w EXCEPT !.status = "break"]
    ELSE IF extent.logical > w.cur
    THEN LET w1 == hole_before(options, extent, end, w)
         IN  IF w1.status # "loop" THEN w1 ELSE extent_body(options, extent, end, out, w1)
    ELSE extent_body(options, extent, end, out, w)

RECURSIVE extent_loop(_, _, _, _, _)
extent_loop(options, extents, end, outs, w) ==
    IF w.status # "loop" THEN w
    ELSE IF w.i > Len(extents) THEN [w EXCEPT !.status = "break"]
    ELSE extent_loop(options, extents, end, outs,
                     visit_extent(options, extents[w.i], end, outs[w.i], w))

\* Variant: the trailing hole is never filled.
trailing_hole_never(options, end, w) ==
    IF w.status # "break" THEN w ELSE [w EXCEPT !.status = "ok"]

\* Variant: the tail is zero-filled whatever fill_holes says.
trailing_hole_always(options, end, w) ==
    IF w.status # "break" THEN w
    ELSE IF w.cur < end
    THEN [w EXCEPT !.buf = FillZero(w.buf, w.n, w.n + (end - w.cur)),
                   !.n = w.n + (end - w.cur),
                   !.status = "ok",
                   !.log = Logged(w, Ev("zero_tail", w.i, w.cur, w.n, end - w.cur, 0, 0))]
    ELSE [w EXCEPT !.status = "ok"]

\* reader.rs 298-307: the trailing hole, after the loop was left.
trailing_hole(options, end, w) ==
    IF w.status # "break" THEN w
    ELSE IF w.cur < end /\ options.fill_holes
    THEN LET remaining == end - w.cur
             buf_start == w.n
             buf_end == buf_start + remaining
         IN  IF buf_end <= Len(w.buf)
             THEN [w EXCEPT !.buf = FillZero(w.buf, buf_start, buf_end),
                            !.n = w.n + remaining,
                            !.status = "ok",
                            !.log = Logged(w, Ev("zero_tail", w.i, w.cur, buf_start,
                                                 remaining, 0, 0))]
             ELSE [w EXCEPT !.status = "ok"]
    ELSE [w EXCEPT !.status = "ok"]

\* ReadContext::read_from_device.  outs[i] is what the device does when the
\* read for extent i is issued.
read_from_device(options, buf, offset, extents, outs) ==
    LET end == offset + Len(buf)
    IN  trailing_hole(options, end, extent_loop(options, extents, end, outs, WalkInit(buf, offset)))

\* reader.rs 104-125: what read_at returns for the extents the provider gave
\* it, the fallback not taken and the device handle obtained: whether it is a
\* success, bytes_read, and the buffer.
read_at_outcome(options, buf, offset, extents, outs) ==
    IF extents = <<>>
    THEN [ok |-> FALSE, err |-> "UnexpectedEof", bytes_read |-> 0, buf |-> buf]
    ELSE LET w == read_from_device(options, buf, offset, extents, outs)
         IN  IF w.status = "ok"
             THEN [ok |-> TRUE, err |-> "", bytes_read |-> w.n, buf |-> w.buf]
             ELSE [ok |-> FALSE, err |-> IF w.status = "err" THEN "DevRead" ELSE "panic",
                   bytes_read |-> 0, buf |-> w.buf]

\* ------------------------------------------------------------------ state
VARIABLES
    pc,            \* where each thread stands in read_at
    req,           \* the call's arguments: the file's device id, offset, buffer length, options
    extents,       \* the extents the provider returned to the call
    device_path,   \* the device path resolve_device_path returned to the call
    device,        \* the DeviceHandle the call holds
    goc_ret,       \* the handle get_or_create returned to the call (0: none)
    ret,           \* the call's result
    buf,           \* the caller's buffer
    io,            \* the I/O the call has done, in order
    cache,         \* DEVICE_CACHE: device id -> handle (0: no entry)
    lock,          \* the RwLock around DEVICE_CACHE
    open_handles,  \* the device handles open in the process
    opens,         \* device opens done by get_or_create, per device id
    fpos,          \* the file position of each device handle (the cursor of its open file)
    walk,          \* read_from_device's loop variables, when it is run extent by extent
    cli            \* the command-line tool: its arguments and the locals of run

vars == <<pc, req, extents, device_path, device, goc_ret, ret, buf, io,
          cache, lock, open_handles, opens, fpos, walk, cli>>

shared == <<cache, lock, open_handles, opens>>

NoDevice == [kind |-> "none", h |-> 0]
Cached(h) == [kind |-> "cached", h |-> h]
Uncached(h) == [kind |-> "uncached", h |-> h]

Request(dev, offset, len, options) ==
    [dev |-> dev, offset |-> offset, len |-> len, options |-> options]

\* open(2) returns the lowest descriptor not in use.
NewHandle == CHOOSE h \in 1..(Cardinality(open_handles) + 1) : h \notin open_handles

\* The handles that can be open at once: one per cache entry and one per
\* call that reads uncached.
Handles == 1..(Cardinality(DevIds) + NThreads)

\* The command-line tool is not running.
NoCli == [pc |-> "none"]

\* reader.rs 204-207: the loop variables of read_from_device at its start.
WalkStart(offset) == [i |-> 1, cur |-> offset, n |-> 0]

Init ==
    /\ pc = [t \in Threads |-> "idle"]
    /\ req = [t \in Threads |-> Request("8:0", 0, 0, DefaultOptions)]
    /\ extents = [t \in Threads |-> <<>>]
    /\ device_path = [t \in Threads |-> EmptyPath]
    /\ device = [t \in Threads |-> NoDevice]
    /\ goc_ret = [t \in Threads |-> 0]
    /\ ret = [t \in Threads |-> NoResult]
    /\ buf = [t \in Threads |-> <<>>]
    /\ io = [t \in Threads |-> <<>>]
    /\ cache = [d \in DevIds |-> 0]
    /\ lock = [readers |-> {}, writer |-> 0]
    /\ open_handles = {}
    /\ opens = [d \in DevIds |-> 0]
    /\ fpos = [h \in Handles |-> 0]
    /\ walk = [t \in Threads |-> WalkStart(0)]
    /\ cli = NoCli

\* The call of thread t returns r: read_at's locals are dropped, and with
\* them an uncached device handle, which closes it.
Return(t, r) ==
    /\ pc' = [pc EXCEPT ![t] = "done"]
    /\ ret' = [ret EXCEPT ![t] = r]
    /\ device' = [device EXCEPT ![t] = NoDevice]
    /\ open_handles' = IF device[t].kind = "uncached"
                       THEN open_handles \ {device[t].h}
                       ELSE open_handles

Note(t, kind) == Append(io[t], Ev(kind, 0, req[t].offset, 0, req[t].len, 0, 0))

\* The same for a call that returned an error.
Failed(t, kind) == Append(io[t], Ev(kind, 0, req[t].offset, 0, req[t].len, 0, -1))

\* reader.rs 94-97: the call, and the empty buffer.
ReadAt(t, Devs, Offsets, Lengths, Opts) ==
    /\ pc[t] = "idle"
    /\ \E dev \in Devs, offset \in Offsets, len \in Lengths, options \in Opts :
        /\ req' = [req EXCEPT ![t] = Request(dev, offset, len, options)]
        /\ buf' = [buf EXCEPT ![t] = [k \in 1..len |-> InitByte]]
        /\ IF len = 0
           THEN /\ pc' = [pc EXCEPT ![t] = "done"]
                /\ ret' = [ret EXCEPT ![t] = Ok(StateFallback(0))]
           ELSE /\ pc' = [pc EXCEPT ![t] = "fiemap"]
                /\ ret' = [ret EXCEPT ![t] = NoResult]
    /\ extents' = [extents EXCEPT ![t] = <<>>]
    /\ device_path' = [device_path EXCEPT ![t] = EmptyPath]
    /\ goc_ret' = [goc_ret EXCEPT ![t] = 0]
    /\ io' = [io EXCEPT ![t] = <<>>]
    /\ UNCHANGED <<device, cache, lock, open_handles, opens>>
    /\ UNCHANGED <<fpos, walk, cli>>

\* The extent query of the call: actual is the number of extents returned,
\* -1 for an error.
FiemapEv(t, actual) == Ev("fiemap", 0, req[t].offset, 0, req[t].len, 0, actual)

\* Variant: an empty extent list is not told from any other.
NoExtentsNever(exts) == FALSE

\* reader.rs 104: extents.is_empty()
NoExtents(exts) == exts = <<>>

\* reader.rs 99-109: the extent query and the empty extent list.  Lists is
\* what the provider may answer for the range.
Fiemap(t, Lists) ==
    /\ pc[t] = "fiemap"
    /\ \/ /\ io' = [io EXCEPT ![t] = Append(io[t], FiemapEv(t, -1))]
          /\ Return(t, Err("Fiemap"))
          /\ UNCHANGED extents
       \/ \E exts \in Lists :
            /\ io' = [io EXCEPT ![t] = Append(io[t], FiemapEv(t, Len(exts)))]
            /\ extents' = [extents EXCEPT ![t] = exts]
            /\ IF NoExtents(exts)
               THEN Return(t, Err("UnexpectedEof"))
               ELSE /\ pc' = [pc EXCEPT ![t] = "check"]
                    /\ UNCHANGED <<ret, device, open_handles>>
    /\ UNCHANGED <<req, device_path, goc_ret, buf, cache, lock, opens>>
    /\ UNCHANGED <<fpos, walk, cli>>

\* Variant: the fallback is taken whenever the extents are eligible, allowed
\* or not.
CheckFallbackUnasked(t) ==
    /\ pc[t] = "check"
    /\ pc' = [pc EXCEPT ![t] =
                IF can_use_fallback(extents[t], req[t].offset, req[t].len)
                THEN "fallback" ELSE "resolve"]
    /\ UNCHANGED <<req, extents, device_path, device, goc_ret, ret, buf, io, shared>>
    /\ UNCHANGED <<fpos, walk, cli>>

\* Variant: the fallback is never taken.
CheckFallbackNever(t) ==
    /\ pc[t] = "check"
    /\ pc' = [pc EXCEPT ![t] = "resolve"]
    /\ UNCHANGED <<req, extents, device_path, device, goc_ret, ret, buf, io, shared>>
    /\ UNCHANGED <<fpos, walk, cli>>

\* reader.rs 111-114: whether the file itself is read.
CheckFallback(t) ==
    /\ pc[t] = "check"
    /\ pc' = [pc EXCEPT ![t] =
                IF req[t].options.allow_fallback
                   /\ can_use_fallback(extents[t], req[t].offset, req[t].len)
                THEN "fallback" ELSE "resolve"]
    /\ UNCHANGED <<req, extents, device_path, device, goc_ret, ret, buf, io, shared>>
    /\ UNCHANGED <<fpos, walk, cli>>

\* reader.rs 169-173: fallback_read.
FallbackRead(t) ==
    /\ pc[t] = "fallback"
    /\ \E out \in -1..req[t].len :
        /\ io' = [io EXCEPT ![t] =
                    Append(io[t], Ev("file_read", 0, req[t].offset, 0, req[t].len, 0, out))]
        /\ IF out < 0
           THEN /\ Return(t, Err("FileRead"))
                /\ UNCHANGED buf
           ELSE /\ Return(t, Ok(StateFallback(out)))
                /\ buf' = [buf EXCEPT ![t] =
                             [k \in 1..req[t].len |->
                                IF k <= out THEN FileByte(req[t].offset + k - 1) ELSE buf[t][k]]]
    /\ UNCHANGED <<req, extents, device_path, goc_ret, cache, lock, opens>>
    /\ UNCHANGED <<fpos, walk, cli>>

\* reader.rs 116-117, 175-182: resolve_device_path.
ResolveDevicePath(t) ==
    /\ pc[t] = "resolve"
    /\ \/ /\ io' = [io EXCEPT ![t] = Failed(t, "resolve")]
          /\ Return(t, Err("Resolve"))
          /\ UNCHANGED device_path
       \/ /\ io' = [io EXCEPT ![t] = Note(t, "resolve")]
          /\ device_path' = [device_path EXCEPT ![t] = PathOf(req[t].dev)]
          /\ pc' = [pc EXCEPT ![t] = "handle"]
          /\ UNCHANGED <<ret, device, open_handles>>
    /\ UNCHANGED <<req, extents, goc_ret, buf, cache, lock, opens>>
    /\ UNCHANGED <<fpos, walk, cli>>

\* reader.rs 185-194: get_device_handle, up to the call into cache.rs.
GetDeviceHandle(t) ==
    /\ pc[t] = "handle"
    /\ IF req[t].options.enable_cache
       THEN \/ /\ io' = [io EXCEPT ![t] = Failed(t, "metadata")]
               /\ Return(t, Err("Metadata"))
            \/ /\ io' = [io EXCEPT ![t] = Note(t, "metadata")]
               /\ pc' = [pc EXCEPT ![t] = "goc"]
               /\ UNCHANGED <<ret, device, open_handles>>
       ELSE /\ pc' = [pc EXCEPT ![t] = "uncached"]
            /\ UNCHANGED <<io, ret, device, open_handles>>
    /\ UNCHANGED <<req, extents, device_path, goc_ret, buf, cache, lock, opens>>
    /\ UNCHANGED <<fpos, walk, cli>>

\* ------------------------------------------------------------------ cache.rs
\* cache.rs 60: the device id of the file.
GocMetadata(t) ==
    /\ pc[t] = "goc"
    /\ \/ /\ io' = [io EXCEPT ![t] = Failed(t, "metadata")]
          /\ Return(t, Err("Metadata"))
       \/ /\ io' = [io EXCEPT ![t] = Note(t, "metadata")]
          /\ pc' = [pc EXCEPT ![t] = "rlock"]
          /\ UNCHANGED <<ret, device, open_handles>>
    /\ UNCHANGED <<req, extents, device_path, goc_ret, buf, cache, lock, opens>>
    /\ UNCHANGED <<fpos, walk, cli>>

\* cache.rs 64: DEVICE_CACHE.read() waits while a writer holds the lock.
GocReadLock(t) ==
    /\ pc[t] = "rlock"
    /\ lock.writer = 0
    /\ lock' = [lock EXCEPT !.readers = @ \cup {t}]
    /\ pc' = [pc EXCEPT ![t] = "lookup"]
    /\ UNCHANGED <<req, extents, device_path, device, goc_ret, ret, buf, io,
                   cache, open_handles, opens>>
    /\ UNCHANGED <<fpos, walk, cli>>

\* A hit of the map: the entry's Arc is cloned and returned.
CacheHit(t, entry) ==
    /\ device' = [device EXCEPT ![t] = Cached(entry)]
    /\ goc_ret' = [goc_ret EXCEPT ![t] = entry]
    /\ pc' = [pc EXCEPT ![t] = "have_handle"]

\* Variant: on a miss the read guard lives on to the end of the function.
GocLookupHoldingGuard(t) ==
    /\ pc[t] = "lookup"
    /\ io' = [io EXCEPT ![t] = Note(t, "cache_get")]
    /\ IF cache[req[t].dev] # 0
       THEN /\ CacheHit(t, cache[req[t].dev])
            /\ lock' = [lock EXCEPT !.readers = @ \ {t}]
       ELSE /\ pc' = [pc EXCEPT ![t] = "goc_resolve"]
            /\ UNCHANGED <<device, goc_ret, lock>>
    /\ UNCHANGED <<req, extents, device_path, ret, buf, cache, open_handles, opens>>
    /\ UNCHANGED <<fpos, walk, cli>>

\* cache.rs 65-68: the lookup under the read lock; the guard is dropped on
\* both ways out of the block.
GocLookup(t) ==
    /\ pc[t] = "lookup"
    /\ io' = [io EXCEPT ![t] = Note(t, "cache_get")]
    /\ lock' = [lock EXCEPT !.readers = @ \ {t}]
    /\ IF cache[req[t].dev] # 0
       THEN CacheHit(t, cache[req[t].dev])
       ELSE /\ pc' = [pc EXCEPT ![t] = "goc_resolve"]
            /\ UNCHANGED <<device, goc_ret>>
    /\ UNCHANGED <<req, extents, device_path, ret, buf, cache, open_handles, opens>>
    /\ UNCHANGED <<fpos, walk, cli>>

\* cache.rs 71: file.resolve_device().
GocResolve(t) ==
    /\ pc[t] = "goc_resolve"
    /\ \/ /\ io' = [io EXCEPT ![t] = Failed(t, "resolve")]
          /\ Return(t, Err("Resolve"))
       \/ /\ io' = [io EXCEPT ![t] = Note(t, "resolve")]
          /\ pc' = [pc EXCEPT ![t] = "wlock"]
          /\ UNCHANGED <<ret, device, open_handles>>
    /\ UNCHANGED <<req, extents, device_path, goc_ret, buf, cache, lock, opens>>
    /\ UNCHANGED <<fpos, walk, cli>>

\* Variant: the write lock is taken without waiting for its holder.
GocWriteLockBarging(t) ==
    /\ pc[t] = "wlock"
    /\ lock' = [lock EXCEPT !.writer = t]
    /\ pc' = [pc EXCEPT ![t] = "recheck"]
    /\ UNCHANGED <<req, extents, device_path, device, goc_ret, ret, buf, io,
                   cache, open_handles, opens>>
    /\ UNCHANGED <<fpos, walk, cli>>

\* cache.rs 72: DEVICE_CACHE.write() waits for every reader and writer.
GocWriteLock(t) ==
    /\ pc[t] = "wlock"
    /\ lock.writer = 0
    /\ lock.readers = {}
    /\ lock' = [lock EXCEPT !.writer = t]
    /\ pc' = [pc EXCEPT ![t] = "recheck"]
    /\ UNCHANGED <<req, extents, device_path, device, goc_ret, ret, buf, io,
                   cache, open_handles, opens>>
    /\ UNCHANGED <<fpos, walk, cli>>

\* Variant: no second look: the device is opened whatever the map holds.
GocRecheckBlind(t) ==
    /\ pc[t] = "recheck"
    /\ io' = [io EXCEPT ![t] = Note(t, "cache_get")]
    /\ pc' = [pc EXCEPT ![t] = "open"]
    /\ UNCHANGED <<device, goc_ret, lock>>
    /\ UNCHANGED <<req, extents, device_path, ret, buf, cache, open_handles, opens>>
    /\ UNCHANGED <<fpos, walk, cli>>

\* cache.rs 75-77: the second look, under the write lock.
GocRecheck(t) ==
    /\ pc[t] = "recheck"
    /\ io' = [io EXCEPT ![t] = Note(t, "cache_get")]
    /\ IF cache[req[t].dev] # 0
       THEN /\ CacheHit(t, cache[req[t].dev])
            /\ lock' = [lock EXCEPT !.writer = 0]
       ELSE /\ pc' = [pc EXCEPT ![t] = "open"]
            /\ UNCHANGED <<device, goc_ret, lock>>
    /\ UNCHANGED <<req, extents, device_path, ret, buf, cache, open_handles, opens>>
    /\ UNCHANGED <<fpos, walk, cli>>

\* Variant: the entry is put into the map before the open, and stays there
\* when the open fails.
GocOpenEntryFirst(t) ==
    /\ pc[t] = "open"
    /\ \/ /\ io' = [io EXCEPT ![t] = Failed(t, "open")]
          /\ Return(t, Err("Open"))
          /\ lock' = [lock EXCEPT !.writer = 0]
          /\ cache' = [cache EXCEPT ![req[t].dev] = NewHandle]
          /\ UNCHANGED <<opens, fpos>>
       \/ /\ io' = [io EXCEPT ![t] = Note(t, "open")]
          /\ device' = [device EXCEPT ![t] = Cached(NewHandle)]
          /\ open_handles' = open_handles \cup {NewHandle}
          /\ opens' = [opens EXCEPT ![req[t].dev] = @ + 1]
          /\ fpos' = [fpos EXCEPT ![NewHandle] = 0]
          /\ pc' = [pc EXCEPT ![t] = "insert"]
          /\ UNCHANGED <<ret, lock, cache>>
    /\ UNCHANGED <<req, extents, device_path, goc_ret, buf>>
    /\ UNCHANGED <<walk, cli>>

\* cache.rs 80, 28-34: CachedDevice::new opens the device with O_DIRECT; on an
\* error the function returns and the write guard is dropped.
GocOpen(t) ==
    /\ pc[t] = "open"
    /\ \/ /\ io' = [io EXCEPT ![t] = Failed(t, "open")]
          /\ Return(t, Err("Open"))
          /\ lock' = [lock EXCEPT !.writer = 0]
          /\ UNCHANGED <<opens, fpos>>
       \/ /\ io' = [io EXCEPT ![t] = Note(t, "open")]
          /\ device' = [device EXCEPT ![t] = Cached(NewHandle)]
          /\ open_handles' = open_handles \cup {NewHandle}
          /\ opens' = [opens EXCEPT ![req[t].dev] = @ + 1]
          /\ fpos' = [fpos EXCEPT ![NewHandle] = 0]
          /\ pc' = [pc EXCEPT ![t] = "insert"]
          /\ UNCHANGED <<ret, lock>>
    /\ UNCHANGED <<req, extents, device_path, goc_ret, buf, cache>>
    /\ UNCHANGED <<walk, cli>>

\* Variant: the insert drops every other entry of the map.
CacheInsertEvicting(map, dev_id, entry) ==
    [d \in DOMAIN map |-> IF d = dev_id THEN entry ELSE 0]

\* HashMap::insert(dev_id, entry): the entry of dev_id is set.
CacheInsert(map, dev_id, entry) == [map EXCEPT ![dev_id] = entry]

\* cache.rs 81-82: the insert, and the return that drops the write guard.
GocInsert(t) ==
    /\ pc[t] = "insert"
    /\ cache' = CacheInsert(cache, req[t].dev, device[t].h)
    /\ io' = [io EXCEPT ![t] = Note(t, "cache_insert")]
    /\ goc_ret' = [goc_ret EXCEPT ![t] = device[t].h]
    /\ lock' = [lock EXCEPT !.writer = 0]
    /\ pc' = [pc EXCEPT ![t] = "have_handle"]
    /\ UNCHANGED <<req, extents, device_path, device, ret, buf, open_handles, opens>>
    /\ UNCHANGED <<fpos, walk, cli>>

\* Variant: the handle opened is put into the map as well.
OpenDeviceUncachedCaching(t) ==
    /\ pc[t] = "uncached"
    /\ \/ /\ io' = [io EXCEPT ![t] = Failed(t, "resolve")]
          /\ Return(t, Err("Resolve"))
          /\ UNCHANGED <<fpos, cache>>
       \/ /\ io' = [io EXCEPT ![t] = Append(Note(t, "resolve"), Ev("open", 0, 0, 0, 0, 0, -1))]
          /\ Return(t, Err("Open"))
          /\ UNCHANGED <<fpos, cache>>
       \/ /\ io' = [io EXCEPT ![t] = Append(Note(t, "resolve"), Ev("open", 0, 0, 0, 0, 0, 0))]
          /\ device' = [device EXCEPT ![t] = Uncached(NewHandle)]
          /\ open_handles' = open_handles \cup {NewHandle}
          /\ fpos' = [fpos EXCEPT ![NewHandle] = 0]
          /\ cache' = [cache EXCEPT ![req[t].dev] = NewHandle]
          /\ pc' = [pc EXCEPT ![t] = "have_handle"]
          /\ UNCHANGED ret
    /\ UNCHANGED <<req, extents, device_path, goc_ret, buf, lock, opens>>
    /\ UNCHANGED <<walk, cli>>

\* cache.rs 97-100: open_device_uncached; the map is not touched.
OpenDeviceUncached(t) ==
    /\ pc[t] = "uncached"
    /\ \/ /\ io' = [io EXCEPT ![t] = Failed(t, "resolve")]
          /\ Return(t, Err("Resolve"))
          /\ UNCHANGED fpos
       \/ /\ io' = [io EXCEPT ![t] = Append(Note(t, "resolve"), Ev("open", 0, 0, 0, 0, 0, -1))]
          /\ Return(t, Err("Open"))
          /\ UNCHANGED fpos
       \/ /\ io' = [io EXCEPT ![t] = Append(Note(t, "resolve"), Ev("open", 0, 0, 0, 0, 0, 0))]
          /\ device' = [device EXCEPT ![t] = Uncached(NewHandle)]
          /\ open_handles' = open_handles \cup {NewHandle}
          /\ fpos' = [fpos EXCEPT ![NewHandle] = 0]
          /\ pc' = [pc EXCEPT ![t] = "have_handle"]
          /\ UNCHANGED ret
    /\ UNCHANGED <<req, extents, device_path, goc_ret, buf, cache, lock, opens>>
    /\ UNCHANGED <<walk, cli>>

\* ------------------------------------------------------------------ reader.rs
\* What the device may do at each positioned read of a call: fail (-1) or
\* return at most so many bytes.
DeviceOutcomes(t) ==
    {outs \in [1..Len(extents[t]) -> (-1..Min(req[t].len, MaxExtLen)) \cup {req[t].len}] :
        \A i \in 1..Len(extents[t]) :
            extents[t][i].flags \cap ExtentFlags # {} => outs[i] = 0}

\* Variant: the result of a device read records no extents.
DeviceResultNoExtents(path, exts, bytes_read) == StateNew(path, <<>>, bytes_read, FALSE)

\* reader.rs 125: the result of a read served by the device.
DeviceResult(path, exts, bytes_read) == StateNew(path, exts, bytes_read, FALSE)

\* Variant: a failed device read ends the call with the bytes produced so far.
ReadFromDeviceSwallowing(t) ==
    /\ pc[t] = "have_handle"
    /\ \E outs \in DeviceOutcomes(t) :
        LET w == read_from_device(req[t].options, buf[t], req[t].offset, extents[t], outs)
        IN  /\ buf' = [buf EXCEPT ![t] = w.buf]
            /\ io' = [io EXCEPT ![t] = io[t] \o w.log]
            /\ Return(t, Ok(DeviceResult(device_path[t], extents[t], w.n)))
    /\ UNCHANGED <<req, extents, device_path, goc_ret, cache, lock, opens>>
    /\ UNCHANGED <<fpos, walk, cli>>

\* reader.rs 122-125: read_from_device and the result.
ReadFromDevice(t) ==
    /\ pc[t] = "have_handle"
    /\ \E outs \in DeviceOutcomes(t) :
        LET w == read_from_device(req[t].options, buf[t], req[t].offset, extents[t], outs)
        IN  /\ buf' = [buf EXCEPT ![t] = w.buf]
            /\ io' = [io EXCEPT ![t] = io[t] \o w.log]
            /\ Return(t, IF w.status = "ok"
                         THEN Ok(DeviceResult(device_path[t], extents[t], w.n))
                         ELSE IF w.status = "err" THEN Err("DevRead") ELSE Err("panic"))
    /\ UNCHANGED <<req, extents, device_path, goc_ret, cache, lock, opens>>
    /\ UNCHANGED <<fpos, walk, cli>>

\* read_from_device run extent by extent, for calls that run side by side.
\* The loop state as the operators of the traversal take it.
WalkOf(t) ==
    [i |-> walk[t].i, cur |-> walk[t].cur, n |-> walk[t].n,
     buf |-> buf[t], log |-> <<>>, status |-> "loop"]

\* reader.rs 204-207: read_from_device is entered.
WalkBegin(t) ==
    /\ pc[t] = "have_handle"
    /\ walk' = [walk EXCEPT ![t] = WalkStart(req[t].offset)]
    /\ pc' = [pc EXCEPT ![t] = "walk"]
    /\ UNCHANGED <<req, extents, device_path, device, goc_ret, ret, buf, io, shared, fpos, cli>>

\* The end of a step of the traversal that left the loop state w.
WalkOn(t, w) ==
    /\ buf' = [buf EXCEPT ![t] = w.buf]
    /\ io' = [io EXCEPT ![t] = io[t] \o w.log]
    /\ walk' = [walk EXCEPT ![t] = [i |-> w.i, cur |-> w.cur, n |-> w.n]]
    /\ IF w.status = "loop" /\ w.i <= Len(extents[t])
       THEN UNCHANGED <<pc, ret, device, open_handles>>
       ELSE IF w.status \in {"loop", "break"}
       THEN /\ pc' = [pc EXCEPT ![t] = "tail"]
            /\ UNCHANGED <<ret, device, open_handles>>
       ELSE Return(t, IF w.status = "ok"
                      THEN Ok(DeviceResult(device_path[t], extents[t], w.n))
                      ELSE IF w.status = "err" THEN Err("DevRead") ELSE Err("panic"))

\* Variant: the device is read with a seek and a read on the shared handle,
\* two steps, in place of one positioned read.
WalkExtentSeeking(t) ==
    LET x == extents[t][walk[t].i]
        read_start == Max(walk[t].cur, x.logical)
        h == device[t].h
    IN  \/ /\ pc[t] = "walk"
           /\ fpos' = [fpos EXCEPT ![h] = x.physical + (read_start - x.logical)]
           /\ pc' = [pc EXCEPT ![t] = "seeked"]
           /\ UNCHANGED <<req, extents, device_path, device, goc_ret, ret, buf, io,
                          shared, walk, cli>>
        \/ /\ pc[t] = "seeked"
           /\ LET at == [x EXCEPT !.physical = fpos[h] - (read_start - x.logical)]
                  w == visit_extent(req[t].options, at, req[t].offset + req[t].len,
                                    req[t].len, WalkOf(t))
              IN  /\ buf' = [buf EXCEPT ![t] = w.buf]
                  /\ io' = [io EXCEPT ![t] = io[t] \o w.log]
                  /\ walk' = [walk EXCEPT ![t] = [i |-> w.i, cur |-> w.cur, n |-> w.n]]
                  /\ fpos' = [fpos EXCEPT ![h] = @ + (w.n - walk[t].n)]
                  /\ pc' = [pc EXCEPT ![t] =
                              IF w.status = "loop" /\ w.i <= Len(extents[t])
                              THEN "walk" ELSE "tail"]
           /\ UNCHANGED <<req, extents, device_path, device, goc_ret, ret, cache, lock,
                          open_handles, opens, cli>>

\* reader.rs 209-296: one iteration of the loop.  The device is read by
\* DeviceHandle::read_at (reader.rs 321-329), a positioned read: it takes the
\* offset it is given and neither uses nor moves the handle's file position.
\* The device returns all the bytes it is asked for.
WalkExtent(t) ==
    /\ pc[t] = "walk"
    /\ WalkOn(t, visit_extent(req[t].options, extents[t][walk[t].i],
                              req[t].offset + req[t].len, req[t].len, WalkOf(t)))
    /\ UNCHANGED <<req, extents, device_path, goc_ret, cache, lock, opens, fpos, cli>>

\* reader.rs 209-296: one iteration of the loop, the device failing or
\* returning any number of the bytes it is asked for.
WalkExtentOut(t) ==
    /\ pc[t] = "walk"
    /\ \E out \in (-1..Min(req[t].len, MaxExtLen)) \cup {req[t].len} :
        WalkOn(t, visit_extent(req[t].options, extents[t][walk[t].i],
                               req[t].offset + req[t].len, out, WalkOf(t)))
    /\ UNCHANGED <<req, extents, device_path, goc_ret, cache, lock, opens, fpos, cli>>

\* reader.rs 298-310, 125: the trailing hole, and the result.
WalkTail(t) ==
    /\ pc[t] = "tail"
    /\ LET w == trailing_hole(req[t].options, req[t].offset + req[t].len,
                              [WalkOf(t) EXCEPT !.status = "break"])
       IN  /\ buf' = [buf EXCEPT ![t] = w.buf]
           /\ io' = [io EXCEPT ![t] = io[t] \o w.log]
           /\ walk' = [walk EXCEPT ![t] = [i |-> w.i, cur |-> w.cur, n |-> w.n]]
           /\ Return(t, Ok(DeviceResult(device_path[t], extents[t], w.n)))
    /\ UNCHANGED <<req, extents, device_path, goc_ret, cache, lock, opens, fpos, cli>>

\* The caller takes the result; the thread is free for its next call.
Finish(t) ==
    /\ pc[t] = "done"
    /\ pc' = [pc EXCEPT ![t] = "idle"]
    /\ req' = [req EXCEPT ![t] = Request("8:0", 0, 0, DefaultOptions)]
    /\ extents' = [extents EXCEPT ![t] = <<>>]
    /\ device_path' = [device_path EXCEPT ![t] = EmptyPath]
    /\ goc_ret' = [goc_ret EXCEPT ![t] = 0]
    /\ ret' = [ret EXCEPT ![t] = NoResult]
    /\ buf' = [buf EXCEPT ![t] = <<>>]
    /\ io' = [io EXCEPT ![t] = <<>>]
    /\ UNCHANGED <<device, cache, lock, open_handles, opens>>
    /\ UNCHANGED <<fpos, walk, cli>>

\* ------------------------------------------------------------------ inputs
\* Where an extent drawn at logical offset l lies on the device.
PhysicalOf(l) == 10 * (l + 1)

FlagSets == {{}, {"UNWRITTEN"}, {"UNKNOWN"}, {"DELALLOC"}, {"UNWRITTEN", "DELALLOC"}}

\* The extents that start at or after from and intersect [offset, end).
ExtentsIn(from, offset, end) ==
    {e \in {FiemapExtent(l, PhysicalOf(l), n, f) :
              l \in from..(end - 1), n \in 1..MaxExtLen, f \in FlagSets} :
        e.logical + e.length > offset}

\* What the extent provider may return for [offset, end): at most n extents,
\* ascending, non-overlapping, each intersecting the range.
RECURSIVE ListsFrom(_, _, _, _)
ListsFrom(from, offset, end, n) ==
    {<<>>} \cup
    (IF n = 0 THEN {}
     ELSE UNION {{<<e>> \o rest : rest \in ListsFrom(e.logical + e.length, offset, end, n - 1)} :
                 e \in ExtentsIn(from, offset, end)})

ProviderLists(offset, len) == ListsFrom(0, offset, offset + len, MaxExtents)

\* A few answers of the provider: nothing, one extent on the whole range
\* (plain or unwritten), one extent after a hole, two extents on the range.
FewLists(offset, len) ==
    {<<>>,
     <<FiemapExtent(offset, PhysicalOf(offset), len, {})>>,
     <<FiemapExtent(offset, PhysicalOf(offset), len, {"UNWRITTEN"})>>}
    \cup (IF len >= 2
          THEN {<<FiemapExtent(offset + 1, PhysicalOf(offset + 1), len, {})>>,
                <<FiemapExtent(offset, PhysicalOf(offset), 1, {}),
                  FiemapExtent(offset + 1, PhysicalOf(offset + 1), len - 1, {})>>}
          ELSE {})

\* ------------------------------------------------------------------ specifications
\* The state of the process with thread 1 inside a call: the other threads
\* idle, the cache empty.
Midcall(at, r, exts, path, dev, handles, log) ==
    /\ pc = [t \in Threads |-> IF t = 1 THEN at ELSE "idle"]
    /\ req = [t \in Threads |-> IF t = 1 THEN r ELSE Request("8:0", 0, 0, DefaultOptions)]
    /\ extents = [t \in Threads |-> IF t = 1 THEN exts ELSE <<>>]
    /\ device_path = [t \in Threads |-> IF t = 1 THEN path ELSE EmptyPath]
    /\ device = [t \in Threads |-> IF t = 1 THEN dev ELSE NoDevice]
    /\ goc_ret = [t \in Threads |-> 0]
    /\ ret = [t \in Threads |-> NoResult]
    /\ buf = [t \in Threads |-> IF t = 1 THEN [k \in 1..r.len |-> InitByte] ELSE <<>>]
    /\ io = [t \in Threads |-> IF t = 1 THEN log ELSE <<>>]
    /\ cache = [d \in DevIds |-> 0]
    /\ lock = [readers |-> {}, writer |-> 0]
    /\ open_handles = handles
    /\ opens = [d \in DevIds |-> 0]
    /\ fpos = [h \in Handles |-> 0]
    /\ walk = [t \in Threads |-> WalkStart(0)]
    /\ cli = NoCli

\* The scenarios of the specification's section 8, at their own sizes.
ScenarioA == [offset |-> 0, len |-> 100, extents |-> <<FiemapExtent(0, 1000, 4096, {})>>]
ScenarioB == [offset |-> 0, len |-> 200, extents |-> <<FiemapExtent(100, 1000, 4096, {})>>]
ScenarioC == [offset |-> 0, len |-> 100, extents |-> <<FiemapExtent(0, 1000, 100, {"UNWRITTEN"})>>]

\* The requests and extent lists drawn: every offset, length and provider
\* answer within the bounds, and the scenarios.
Drawn ==
    UNION {{[offset |-> o, len |-> n, extents |-> exts] :
                exts \in ProviderLists(o, n) \ {<<>>}} :
           <<o, n>> \in (0..MaxOff) \X (1..MaxLen)}
    \cup {ScenarioA, ScenarioB, ScenarioC}

\* can_use_fallback on every drawn extent list: the call stands at reader.rs
\* 112, the extents returned.
InitFallback ==
    \E d \in Drawn, f \in BOOLEAN :
        LET r == Request("8:0", d.offset, d.len, Options(TRUE, FALSE, FALSE, f))
        IN  Midcall("check", r, d.extents, EmptyPath, NoDevice, {},
                    <<Ev("fiemap", 0, d.offset, 0, d.len, 0, Len(d.extents))>>)

NextFallback == CheckFallback(1)

SpecFallback == InitFallback /\ [][NextFallback]_vars

\* read_from_device on every drawn extent list: the call stands at reader.rs
\* 123 with an uncached handle, the extents returned and the device resolved.
InitTraverse ==
    \E d \in Drawn, h \in BOOLEAN, u \in BOOLEAN :
        LET r == Request("8:0", d.offset, d.len, Options(FALSE, h, u, FALSE))
        IN  Midcall("have_handle", r, d.extents, PathOf("8:0"), Uncached(1), {1},
                    <<Ev("fiemap", 0, d.offset, 0, d.len, 0, Len(d.extents)),
                      Ev("resolve", 0, d.offset, 0, d.len, 0, 0),
                      Ev("resolve", 0, d.offset, 0, d.len, 0, 0),
                      Ev("open", 0, 0, 0, 0, 0, 0)>>)

NextTraverse == ReadFromDevice(1)

SpecTraverse == InitTraverse /\ [][NextTraverse]_vars

\* The traversal with read_exact on and off: the call stands at reader.rs
\* 123, on a few extent lists and the scenarios.
DrawnFew ==
    UNION {{[offset |-> o, len |-> n, extents |-> exts] : exts \in FewLists(o, n) \ {<<>>}} :
           <<o, n>> \in (0..MaxOff) \X (1..MaxLen)}
    \cup {ScenarioA, ScenarioB, ScenarioC}

InitExact ==
    \E d \in DrawnFew, h \in BOOLEAN, u \in BOOLEAN, x \in BOOLEAN :
        LET o == with_read_exact(Options(FALSE, h, u, FALSE), x)
            r == Request("8:0", d.offset, d.len, o)
        IN  Midcall("have_handle", r, d.extents, PathOf("8:0"), Uncached(1), {1},
                    <<Ev("fiemap", 0, d.offset, 0, d.len, 0, Len(d.extents)),
                      Ev("resolve", 0, d.offset, 0, d.len, 0, 0),
                      Ev("resolve", 0, d.offset, 0, d.len, 0, 0),
                      Ev("open", 0, 0, 0, 0, 0, 0)>>)

NextExact == ReadFromDevice(1)

SpecExact == InitExact /\ [][NextExact]_vars

\* read_from_device run extent by extent on every drawn extent list.
NextWalk ==
    \/ WalkBegin(1)
    \/ WalkExtentOut(1)
    \/ WalkTail(1)

SpecWalk == InitTraverse /\ [][NextWalk]_vars

\* ------------------------------------------------------------------ bin/blkreader.rs
\* bin/blkreader.rs 15: DEFAULT_CHUNK_SIZE, 1 MiB in the tool, a power of two.
DEFAULT_CHUNK_SIZE == 2 ^ ChunkBits

\* The values of u64 (and usize) are 0..Word-1; Word is a multiple of the
\* chunk size, as 2^64 is of 1 MiB.
Word == 2 ^ (ChunkBits + 2)

\* The alignments: the powers of two that divide the chunk size.
Alignments == {2 ^ a : a \in 0..ChunkBits}

\* bin/blkreader.rs 86-88: offset & !(alignment - 1), alignment a power of two.
align_down(offset, alignment) == offset - (offset % alignment)

\* bin/blkreader.rs 91-93: (length + alignment - 1) & !(alignment - 1), the
\* sum taken in u64.
align_up(length, alignment) ==
    LET sum == (length + alignment - 1) % Word
    IN  sum - (sum % alignment)

\* Variant: the bytes read past the skipped ones are all written.
bytes_to_write_unclamped(bytes_read, skip, length, total_bytes_read) ==
    Max(bytes_read - skip, 0)

\* bin/blkreader.rs 187-190: min of the two saturating differences.
bytes_to_write(bytes_read, skip, length, total_bytes_read) ==
    Min(Max(bytes_read - skip, 0), Max(length - total_bytes_read, 0))

\* The tool is started: any offset and length, an alignment, and the build
\* (with overflow checks an overflowing sum panics, without them it wraps).
CliArgs ==
    [pc : {"start"}, offset : 0..(Word - 1), length : 0..(Word - 1),
     alignment : Alignments, checks : BOOLEAN]

\* A call of blk_read_at_opt and what it returned (-1: an error); a write
\* to the output.
NoCall == [offset |-> 0, size |-> 0, bytes_read |-> 0]
NoWrite == [at |-> 0, skip |-> 0, n |-> 0, before |-> 0]

\* bin/blkreader.rs 95-158: run, up to the loop.
CliStart ==
    /\ cli.pc = "start"
    /\ LET length == cli.length
           aligned_offset == align_down(cli.offset, cli.alignment)
           offset_adjustment == cli.offset - aligned_offset
           sum == length + offset_adjustment
           overflow == sum >= Word \/ (sum % Word) + cli.alignment >= Word
           total_length == align_up(sum % Word, cli.alignment)
       IN  IF length = 0
           THEN cli' = [pc |-> "exit", offset |-> cli.offset, length |-> length,
                        alignment |-> cli.alignment, checks |-> cli.checks,
                        aligned_offset |-> 0, offset_adjustment |-> 0,
                        total_bytes_read |-> 0, current_aligned_offset |-> 0,
                        remaining |-> 0, calls |-> 0, call |-> NoCall, write |-> NoWrite]
           ELSE cli' = [pc |-> IF overflow /\ cli.checks THEN "panic" ELSE "loop",
                        offset |-> cli.offset, length |-> length,
                        alignment |-> cli.alignment, checks |-> cli.checks,
                        aligned_offset |-> aligned_offset,
                        offset_adjustment |-> offset_adjustment,
                        total_bytes_read |-> 0,
                        current_aligned_offset |-> aligned_offset,
                        remaining |-> total_length,
                        calls |-> 0, call |-> NoCall, write |-> NoWrite]
    /\ UNCHANGED <<pc, req, extents, device_path, device, goc_ret, ret, buf, io, shared,
                   fpos, walk>>

\* bin/blkreader.rs 160-209: one turn of the loop.  blk_read_at_opt fails or
\* returns bytes_read, at most the length of the buffer it was given.
CliChunk ==
    /\ cli.pc = "loop"
    /\ cli.remaining > 0
    /\ LET read_size == Min(cli.remaining, DEFAULT_CHUNK_SIZE)
           aligned_size == align_up(read_size, cli.alignment)
       IN  IF aligned_size > DEFAULT_CHUNK_SIZE
           THEN cli' = [cli EXCEPT !.pc = "panic"]
           ELSE \E bytes_read \in -1..aligned_size :
                LET called == [offset |-> cli.current_aligned_offset, size |-> aligned_size,
                               bytes_read |-> bytes_read]
                    skip == IF cli.current_aligned_offset = cli.aligned_offset
                            THEN cli.offset_adjustment ELSE 0
                    n == bytes_to_write(bytes_read, skip, cli.length, cli.total_bytes_read)
                    total == cli.total_bytes_read + n
                    at == [cli EXCEPT !.calls = @ + 1, !.call = called]
                IN  IF bytes_read < 0 THEN cli' = [at EXCEPT !.pc = "error"]
                    ELSE IF bytes_read = 0 THEN cli' = [at EXCEPT !.pc = "exit"]
                    ELSE IF n > 0 /\ skip + n > DEFAULT_CHUNK_SIZE
                    THEN cli' = [at EXCEPT !.pc = "panic"]
                    ELSE LET written == [at EXCEPT
                                            !.total_bytes_read = total,
                                            !.write = IF n > 0
                                                      THEN [at |-> cli.current_aligned_offset,
                                                            skip |-> skip, n |-> n,
                                                            before |-> cli.total_bytes_read]
                                                      ELSE @]
                         IN  IF total >= cli.length \/ bytes_read < read_size
                             THEN cli' = [written EXCEPT !.pc = "exit"]
                             ELSE IF cli.current_aligned_offset + read_size >= Word
                                     /\ cli.checks
                             THEN cli' = [written EXCEPT !.pc = "panic"]
                             ELSE cli' = [written EXCEPT
                                            !.current_aligned_offset = (@ + read_size) % Word,
                                            !.remaining = @ - read_size]
    /\ UNCHANGED <<pc, req, extents, device_path, device, goc_ret, ret, buf, io, shared,
                   fpos, walk>>

\* bin/blkreader.rs 160, 211-222: nothing remains, the loop is left.
CliLoopEnd ==
    /\ cli.pc = "loop"
    /\ cli.remaining = 0
    /\ cli' = [cli EXCEPT !.pc = "exit"]
    /\ UNCHANGED <<pc, req, extents, device_path, device, goc_ret, ret, buf, io, shared,
                   fpos, walk>>

InitCli ==
    /\ pc = [t \in Threads |-> "idle"]
    /\ req = [t \in Threads |-> Request("8:0", 0, 0, DefaultOptions)]
    /\ extents = [t \in Threads |-> <<>>]
    /\ device_path = [t \in Threads |-> EmptyPath]
    /\ device = [t \in Threads |-> NoDevice]
    /\ goc_ret = [t \in Threads |-> 0]
    /\ ret = [t \in Threads |-> NoResult]
    /\ buf = [t \in Threads |-> <<>>]
    /\ io = [t \in Threads |-> <<>>]
    /\ cache = [d \in DevIds |-> 0]
    /\ lock = [readers |-> {}, writer |-> 0]
    /\ open_handles = {}
    /\ opens = [d \in DevIds |-> 0]
    /\ fpos = [h \in Handles |-> 0]
    /\ walk = [t \in Threads |-> WalkStart(0)]
    /\ cli \in CliArgs

NextCli ==
    \/ CliStart
    \/ CliChunk
    \/ CliLoopEnd

\* The tool, from its start to its exit; it runs on while it can.
SpecCli == InitCli /\ [][NextCli]_vars /\ WF_vars(NextCli)

\* The steps of a call that is under way.
CacheStep(t) ==
    \/ GocMetadata(t)
    \/ GocReadLock(t)
    \/ GocLookup(t)
    \/ GocResolve(t)
    \/ GocWriteLock(t)
    \/ GocRecheck(t)
    \/ GocOpen(t)
    \/ GocInsert(t)
    \/ OpenDeviceUncached(t)

\* One caller of read; every option set, offset and buffer length.
Next ==
    \/ ReadAt(1, DevIds, 0..MaxOff, 0..MaxLen, AllOptions)
    \/ Fiemap(1, FewLists(req[1].offset, req[1].len))
    \/ CheckFallback(1)
    \/ FallbackRead(1)
    \/ ResolveDevicePath(1)
    \/ GetDeviceHandle(1)
    \/ CacheStep(1)
    \/ ReadFromDevice(1)
    \/ Finish(1)

Spec == Init /\ [][Next]_vars

\* cache.rs 59: a thread calls get_or_create_cached_device on a file of dev.
CallGetOrCreate(t, dev) ==
    /\ pc[t] = "idle"
    /\ pc' = [pc EXCEPT ![t] = "goc"]
    /\ req' = [req EXCEPT ![t] = Request(dev, 0, 0, DefaultOptions)]
    /\ UNCHANGED <<extents, device_path, device, goc_ret, ret, buf, io, shared>>
    /\ UNCHANGED <<fpos, walk, cli>>

\* cache.rs 97: a thread calls open_device_uncached on a file of dev.
CallOpenUncached(t, dev) ==
    /\ pc[t] = "idle"
    /\ pc' = [pc EXCEPT ![t] = "uncached"]
    /\ req' = [req EXCEPT ![t] = Request(dev, 0, 0, DefaultOptions)]
    /\ UNCHANGED <<extents, device_path, device, goc_ret, ret, buf, io, shared>>
    /\ UNCHANGED <<fpos, walk, cli>>

\* The caller is done with the handle it was given and drops it.
Release(t) ==
    /\ pc[t] = "have_handle"
    /\ Return(t, Ok(StateNew(EmptyPath, <<>>, 0, FALSE)))
    /\ UNCHANGED <<req, extents, device_path, goc_ret, buf, io, cache, lock, opens>>
    /\ UNCHANGED <<fpos, walk, cli>>

\* Concurrent callers of the device cache.
NextCache ==
    \E t \in Threads :
        \/ \E dev \in DevIds : CallGetOrCreate(t, dev)
        \/ \E dev \in DevIds : CallOpenUncached(t, dev)
        \/ CacheStep(t)
        \/ Release(t)
        \/ Finish(t)

SpecCache == Init /\ [][NextCache]_vars

\* options.rs 73-125: the caller builds its options, a setter at a time.
CallSetter(t, setter, v) ==
    /\ pc[t] = "idle"
    /\ Len(io[t]) < MaxChain
    /\ req' = [req EXCEPT ![t].options = Set(@, setter, v)]
    /\ io' = [io EXCEPT ![t] = Append(@, Ev(setter, 0, 0, 0, 0, 0, IF v THEN 1 ELSE 0))]
    /\ UNCHANGED <<pc, extents, device_path, device, goc_ret, ret, buf, shared, fpos, walk, cli>>

NextOptions == \E setter \in Setters, v \in BOOLEAN : CallSetter(1, setter, v)

\* Options::new() followed by any chain of setters.
SpecOptions == Init /\ [][NextOptions]_vars

\* The extents of the file the concurrent calls read: one block, a hole, and
\* an extent that reaches past every range drawn.
FileExtents ==
    <<FiemapExtent(0, PhysicalOf(0), 1, {}),
      FiemapExtent(2, PhysicalOf(2), MaxOff + MaxLen, {})>>

\* fiemap_range(offset, length) on that file: its extents that intersect the
\* range.
ExtentsOf(offset, len) ==
    SelectSeq(FileExtents,
              LAMBDA e : e.logical < offset + len /\ e.logical + e.length > offset)

\* The calls that run side by side: thread 1 reads any range, with or without
\* fill_holes; the others read the start of the file or from the last offset
\* on, with fill_holes.
ConcurrentRequests(t) ==
    IF t = 1
    THEN {Request("8:0", o, n, Options(TRUE, h, FALSE, FALSE)) :
            o \in 0..MaxOff, n \in 1..MaxLen, h \in BOOLEAN}
    ELSE {Request("8:0", o, MaxLen, Options(TRUE, TRUE, FALSE, FALSE)) : o \in {0, MaxOff}}

\* Every thread is inside a call on the same file, at reader.rs 120: the
\* extents are returned and not eligible for fallback, the device path is
\* resolved; the cache is empty.
InitConcurrent ==
    /\ pc = [t \in Threads |-> "handle"]
    /\ req \in [Threads -> UNION {ConcurrentRequests(t) : t \in Threads}]
    /\ \A t \in Threads :
        /\ req[t] \in ConcurrentRequests(t)
        /\ ExtentsOf(req[t].offset, req[t].len) # <<>>
    /\ extents = [t \in Threads |-> ExtentsOf(req[t].offset, req[t].len)]
    /\ device_path = [t \in Threads |-> PathOf(req[t].dev)]
    /\ device = [t \in Threads |-> NoDevice]
    /\ goc_ret = [t \in Threads |-> 0]
    /\ ret = [t \in Threads |-> NoResult]
    /\ buf = [t \in Threads |-> [k \in 1..req[t].len |-> InitByte]]
    /\ io = [t \in Threads |->
                <<Ev("fiemap", 0, req[t].offset, 0, req[t].len, 0, Len(extents[t])),
                  Ev("resolve", 0, req[t].offset, 0, req[t].len, 0, 0)>>]
    /\ cache = [d \in DevIds |-> 0]
    /\ lock = [readers |-> {}, writer |-> 0]
    /\ open_handles = {}
    /\ opens = [d \in DevIds |-> 0]
    /\ fpos = [h \in Handles |-> 0]
    /\ walk = [t \in Threads |-> WalkStart(0)]
    /\ cli = NoCli

NextConcurrent ==
    \E t \in Threads :
        \/ GetDeviceHandle(t)
        \/ GocMetadata(t)
        \/ GocReadLock(t)
        \/ GocLookup(t)
        \/ GocResolve(t)
        \/ GocWriteLock(t)
        \/ GocRecheck(t)
        \/ GocOpen(t)
        \/ GocInsert(t)
        \/ WalkBegin(t)
        \/ WalkExtent(t)
        \/ WalkTail(t)

SpecConcurrent == InitConcurrent /\ [][NextConcurrent]_vars

\* What thread t may do next in its cached read.
CallStep(t) ==
    \/ GetDeviceHandle(t)
    \/ GocMetadata(t)
    \/ GocReadLock(t)
    \/ GocLookup(t)
    \/ GocResolve(t)
    \/ GocWriteLock(t)
    \/ GocRecheck(t)
    \/ GocOpen(t)
    \/ GocInsert(t)
    \/ WalkBegin(t)
    \/ WalkExtent(t)
    \/ WalkTail(t)

\* Every thread is inside a cached read of the start of a file, at reader.rs
\* 120, the cache empty: the files are on one device, but for the last
\* thread's, which may be on the other.
InitContend ==
    /\ pc = [t \in Threads |-> "handle"]
    /\ \E d \in DevIds :
        req = [t \in Threads |->
                 Request(IF t = NThreads THEN d ELSE "8:0", 0, 1,
                         Options(TRUE, TRUE, FALSE, FALSE))]
    /\ extents = [t \in Threads |-> ExtentsOf(req[t].offset, req[t].len)]
    /\ device_path = [t \in Threads |-> PathOf(req[t].dev)]
    /\ device = [t \in Threads |-> NoDevice]
    /\ goc_ret = [t \in Threads |-> 0]
    /\ ret = [t \in Threads |-> NoResult]
    /\ buf = [t \in Threads |-> [k \in 1..req[t].len |-> InitByte]]
    /\ io = [t \in Threads |->
                <<Ev("fiemap", 0, req[t].offset, 0, req[t].len, 0, Len(extents[t])),
                  Ev("resolve", 0, req[t].offset, 0, req[t].len, 0, 0)>>]
    /\ cache = [d \in DevIds |-> 0]
    /\ lock = [readers |-> {}, writer |-> 0]
    /\ open_handles = {}
    /\ opens = [d \in DevIds |-> 0]
    /\ fpos = [h \in Handles |-> 0]
    /\ walk = [t \in Threads |-> WalkStart(0)]
    /\ cli = NoCli

\* The concurrent cached reads under a fair scheduler: a thread that can take
\* a step (it is not waiting for the lock) takes one in the end.
SpecConcurrentFair ==
    InitContend /\ [][NextConcurrent]_vars /\ \A t \in Threads : WF_vars(CallStep(t))

\* ------------------------------------------------------------------ properties
Count(seq, kind) == Cardinality({k \in 1..Len(seq) : EvKind(seq[k]) = kind})

Done(t) == pc[t] = "done"

End(t) == req[t].offset + req[t].len

\* Every byte of [offset, offset + length) lies in an extent that carries
\* none of UNWRITTEN, UNKNOWN, DELALLOC.
FullyCommitted(exts, offset, length) ==
    \A b \in offset..(offset + length - 1) :
        \E i \in 1..Len(exts) :
            /\ exts[i].logical <= b
            /\ b < exts[i].logical + exts[i].length
            /\ exts[i].flags \cap ExtentFlags = {}

\* The events of read_from_device in a call's I/O.
TraversalKinds ==
    {"hole_stop", "zero_hole", "unwritten_stop", "zero_unwritten",
     "holelike_stop", "zero_holelike", "dev_read", "zero_tail"}

Trav(t) == SelectSeq(io[t], LAMBDA e : EvKind(e) \in TraversalKinds)

\* After event j of the traversal (0: at its start) the loop goes on to the
\* next extent.
GoesOn(t, j) ==
    \/ j = 0
    \/ /\ j \in 1..Len(Trav(t))
       /\ \/ EvKind(Trav(t)[j]) \in {"zero_unwritten", "zero_holelike"}
          \/ EvKind(Trav(t)[j]) = "dev_read" /\ EvActual(Trav(t)[j]) = EvLen(Trav(t)[j])

\* The extent visited and the cursor after event j.
NextIdx(t, j) == IF j = 0 THEN 1 ELSE EvIdx(Trav(t)[j]) + 1
CursorAfter(t, j) == IF j = 0 THEN req[t].offset ELSE EvCur(Trav(t)[j]) + EvLen(Trav(t)[j])

\* After event j the traversal reaches an extent that starts past the cursor.
HoleReached(t, j) ==
    /\ GoesOn(t, j)
    /\ NextIdx(t, j) <= Len(extents[t])
    /\ CursorAfter(t, j) < End(t)
    /\ extents[t][NextIdx(t, j)].logical > CursorAfter(t, j)

\* C1: whatever the interleaving of the callers of get_or_create for a device
\* id, at most one device open is done for it, exactly one once a call has
\* returned, and every call that returned holds the handle of the map's entry,
\* the same for all of them.
C1_ExactlyOneOpen ==
    \A d \in DevIds :
        /\ opens[d] <= 1
        /\ \A t \in Threads :
            (goc_ret[t] # 0 /\ req[t].dev = d) =>
                /\ opens[d] = 1
                /\ goc_ret[t] = cache[d]
                /\ \A u \in Threads :
                    (goc_ret[u] # 0 /\ req[u].dev = d) => goc_ret[u] = goc_ret[t]

\* Every thread called get_or_create for one device id, each missed the first
\* lookup (two lookups were done), and all hold the one handle.
C1_Witness ==
    \E d \in DevIds :
        /\ opens[d] = 1
        /\ cache[d] # 0
        /\ \A t \in Threads :
            /\ pc[t] = "have_handle"
            /\ req[t].dev = d
            /\ goc_ret[t] = cache[d]
            /\ Count(io[t], "cache_get") = 2

\* C2: the map changes only by an entry being set for a device id that had
\* none, to the handle the inserting thread opened, which no other device id
\* has: an entry is never overwritten and no id ever gets a second handle.
C2_NeverOverwritten ==
    [][\A d \in DevIds :
         cache'[d] # cache[d] =>
            /\ cache[d] = 0
            /\ \E t \in Threads :
                 pc[t] = "insert" /\ req[t].dev = d /\ cache'[d] = device[t].h
            /\ \A e \in DevIds \ {d} : cache'[e] # cache'[d]]_vars

\* A thread holds the write lock for a device id that another thread has
\* given its entry meanwhile, with an uncached open of the same id under way.
C2_Witness ==
    \E t \in Threads, u \in Threads :
        /\ pc[t] = "recheck"
        /\ cache[req[t].dev] # 0
        /\ pc[u] = "have_handle"
        /\ device[u].kind = "uncached"
        /\ req[u].dev = req[t].dev

\* C3: an entry of the map, once there, stays there with its handle, and the
\* handle stays open, whatever read follows (any options, failed or not).
C3_EntriesPersist ==
    [][\A d \in DevIds :
         cache[d] # 0 => cache'[d] = cache[d] /\ cache[d] \in open_handles']_vars

\* A read through the cached handle of a device id failed at the device, a
\* second device id has its entry too, and both entries are there.
C3_Witness ==
    /\ \A d \in DevIds : cache[d] # 0
    /\ Done(1)
    /\ ret[1] = Err("DevRead")
    /\ req[1].options.enable_cache

\* C4 (as claimed): a read into an empty buffer succeeds with bytes_read = 0
\* and the fallback flag unset, and does no I/O at all.
C4_EmptyBufferFlagUnset ==
    \A t \in Threads :
        (Done(t) /\ req[t].len = 0) =>
            /\ ret[t].ok
            /\ ret[t].state.bytes_read = 0
            /\ ret[t].state.used_fallback = FALSE
            /\ io[t] = <<>>
            /\ device[t] = NoDevice

\* C5: a call whose extent query returned no extent (the buffer is not
\* empty) has returned UnexpectedEof, whatever its options, having done
\* nothing but the query: no file read, no device resolution, no open, no
\* access to the map, and the buffer is as it was.
C5_EmptyExtentsIsEof ==
    \A t \in Threads :
        (io[t] # <<>> /\ EvKind(io[t][1]) = "fiemap" /\ EvActual(io[t][1]) = 0) =>
            /\ Done(t)
            /\ ret[t] = Err("UnexpectedEof")
            /\ io[t] = <<FiemapEv(t, 0)>>
            /\ device[t] = NoDevice
            /\ device_path[t] = EmptyPath
            /\ goc_ret[t] = 0
            /\ \A k \in 1..Len(buf[t]) : buf[t][k] = InitByte

\* The provider returned nothing to a call with fill_holes and allow_fallback.
C5_Witness ==
    \E t \in Threads :
        /\ Done(t)
        /\ req[t].len > 0
        /\ io[t] = <<FiemapEv(t, 0)>>
        /\ req[t].options.fill_holes
        /\ req[t].options.allow_fallback
        /\ ret[t] = Err("UnexpectedEof")

\* C6: can_use_fallback is true exactly when every byte of the range lies in
\* an extent with none of the three flags; read_at takes the fallback exactly
\* when it is allowed and so; and an empty list is never eligible.
C6_FallbackEligibility ==
    /\ pc[1] = "check" =>
          can_use_fallback(extents[1], req[1].offset, req[1].len)
              = FullyCommitted(extents[1], req[1].offset, req[1].len)
    /\ pc[1] # "check" =>
          ((pc[1] = "fallback")
              <=> (req[1].options.allow_fallback
                   /\ FullyCommitted(extents[1], req[1].offset, req[1].len)))
    /\ ~can_use_fallback(<<>>, req[1].offset, req[1].len)

\* The fallback was taken on two adjoining plain extents, the range starting
\* inside the first.
C6_Witness ==
    /\ pc[1] = "fallback"
    /\ Len(extents[1]) = 2
    /\ extents[1][1].logical < req[1].offset

\* C7: a result with used_fallback set has no extents and no device path; the
\* result of a call that resolved the device has used_fallback unset, the
\* resolved path and the very list the provider returned.
C7_ResultConsistent ==
    \A t \in Threads :
        (Done(t) /\ ret[t].ok) =>
            /\ ret[t].state.used_fallback =>
                  ret[t].state.extents = <<>> /\ ret[t].state.block_device_path = EmptyPath
            /\ Count(io[t], "resolve") > 0 =>
                  /\ ~ret[t].state.used_fallback
                  /\ ret[t].state.block_device_path = PathOf(req[t].dev)
                  /\ ret[t].state.extents = extents[t]
                  /\ extents[t] # <<>>

\* A read served by the device through the cache returned all the bytes.
C7_Witness ==
    \E t \in Threads :
        /\ Done(t)
        /\ ret[t].ok
        /\ Count(io[t], "dev_read") = 1
        /\ ret[t].state.bytes_read = req[t].len
        /\ ret[t].state.extents = extents[t]
        /\ req[t].options.enable_cache

\* C8: a call that allows the fallback and whose extents are eligible goes
\* from the check to the file read and returns: it never holds a device
\* handle or path, and its I/O is the extent query and one positioned read of
\* the file at the offset, for the buffer's length; the result is the
\* fallback state with the bytes the file read gave.
C8_FallbackLeavesDeviceAlone ==
    \A t \in Threads :
        (/\ extents[t] # <<>>
         /\ req[t].options.allow_fallback
         /\ FullyCommitted(extents[t], req[t].offset, req[t].len)) =>
            /\ pc[t] \in {"check", "fallback", "done"}
            /\ device[t] = NoDevice
            /\ device_path[t] = EmptyPath
            /\ goc_ret[t] = 0
            /\ Done(t) =>
                /\ Len(io[t]) = 2
                /\ io[t][1] = FiemapEv(t, Len(extents[t]))
                /\ EvKind(io[t][2]) = "file_read"
                /\ EvCur(io[t][2]) = req[t].offset
                /\ EvLen(io[t][2]) = req[t].len
                /\ ret[t].ok => ret[t].state = StateFallback(EvActual(io[t][2]))
                /\ ~ret[t].ok => ret[t] = Err("FileRead")

\* The fallback served a whole buffer while the map holds an entry for the
\* file's device.
C8_Witness ==
    \E t \in Threads :
        /\ Done(t)
        /\ ret[t].ok
        /\ ret[t].state.used_fallback
        /\ req[t].len > 0
        /\ ret[t].state.bytes_read = req[t].len
        /\ req[t].options.enable_cache
        /\ cache[req[t].dev] # 0

\* C9: with fill_holes off, once the traversal reaches an extent that starts
\* past the cursor, the call has returned successfully right there: the stop
\* is the last event, bytes_read is the bytes produced so far (0 for a hole at
\* the offset), nothing was written past them, and only such a hole stops the
\* traversal as a hole.
C9_HoleStops ==
    \A t \in Threads :
        (Done(t) /\ ~req[t].options.fill_holes /\ device_path[t] # EmptyPath) =>
            /\ \A j \in 0..Len(Trav(t)) :
                HoleReached(t, j) =>
                    /\ Len(Trav(t)) = j + 1
                    /\ Trav(t)[j + 1] = Ev("hole_stop", NextIdx(t, j), CursorAfter(t, j),
                                            CursorAfter(t, j) - req[t].offset, 0, 0, 0)
                    /\ ret[t] = Ok(DeviceResult(device_path[t], extents[t],
                                                CursorAfter(t, j) - req[t].offset))
                    /\ \A k \in 1..Len(buf[t]) :
                        k > CursorAfter(t, j) - req[t].offset => buf[t][k] = InitByte
                    /\ \A k \in 1..j : EvKind(Trav(t)[k]) # "zero_hole"
            /\ \A j \in 1..Len(Trav(t)) :
                EvKind(Trav(t)[j]) = "hole_stop" => HoleReached(t, j - 1)
            /\ Count(Trav(t), "zero_hole") = 0
            /\ Count(Trav(t), "zero_tail") = 0

\* A device read of a whole extent was followed by a hole: the call returned
\* the bytes of that read.
C9_Witness ==
    /\ Done(1)
    /\ ~req[1].options.fill_holes
    /\ Len(Trav(1)) = 2
    /\ EvKind(Trav(1)[1]) = "dev_read"
    /\ EvKind(Trav(1)[2]) = "hole_stop"
    /\ ret[1].ok
    /\ ret[1].state.bytes_read > 0
    /\ ret[1].state.bytes_read < req[1].len

\* The call of scenario B: offset 0, length 200, one plain extent at logical
\* 100, physical 1000.
IsScenarioB(t) ==
    /\ req[t].offset = ScenarioB.offset
    /\ req[t].len = ScenarioB.len
    /\ extents[t] = ScenarioB.extents

\* C10: with fill_holes on, a hole before an extent gives exactly
\* min(extent.logical, end) - cursor zero bytes at the produced-bytes position,
\* and the traversal goes on with that same extent at its logical start; in
\* scenario B, the device returning all it is asked for, bytes_read is 200,
\* bytes 0..99 are zero and bytes 100..199 are the device's from 1000 on.
C10_HoleFilled ==
    \A t \in Threads :
        (Done(t) /\ req[t].options.fill_holes /\ device_path[t] # EmptyPath) =>
            /\ \A j \in 0..Len(Trav(t)) :
                HoleReached(t, j) =>
                    LET x == extents[t][NextIdx(t, j)]
                        c == CursorAfter(t, j)
                        n == Min(x.logical, End(t)) - c
                    IN  /\ Len(Trav(t)) >= j + 1
                        /\ Trav(t)[j + 1] = Ev("zero_hole", NextIdx(t, j), c,
                                                c - req[t].offset, n, 0, 0)
                        /\ \A k \in 1..Len(buf[t]) :
                            (c - req[t].offset < k /\ k <= c - req[t].offset + n) =>
                                buf[t][k] = ZeroByte
                        /\ IF x.logical < End(t)
                           THEN /\ Len(Trav(t)) >= j + 2
                                /\ EvKind(Trav(t)[j + 2]) # "zero_hole"
                                /\ EvIdx(Trav(t)[j + 2]) = NextIdx(t, j)
                                /\ EvCur(Trav(t)[j + 2]) = x.logical
                                /\ EvPos(Trav(t)[j + 2]) = x.logical - req[t].offset
                           ELSE Len(Trav(t)) = j + 1
            /\ \A j \in 1..Len(Trav(t)) :
                EvKind(Trav(t)[j]) = "zero_hole" => HoleReached(t, j - 1)
            /\ (IsScenarioB(t) /\ Len(Trav(t)) = 2 /\ EvActual(Trav(t)[2]) = 100) =>
                /\ ret[t] = Ok(DeviceResult(device_path[t], extents[t], 200))
                /\ Trav(t)[2] = Ev("dev_read", 1, 100, 100, 100, 1000, 100)
                /\ \A k \in 1..100 : buf[t][k] = ZeroByte
                /\ \A k \in 101..200 : buf[t][k] = DevByte(1000 + (k - 101))

\* Scenario B with fill_holes on, served in full.
C10_Witness ==
    /\ Done(1)
    /\ IsScenarioB(1)
    /\ req[1].options.fill_holes
    /\ ret[1].ok
    /\ ret[1].state.bytes_read = 200
    /\ Count(Trav(1), "zero_hole") = 1
    /\ Count(Trav(1), "dev_read") = 1

\* After event j the body of an extent (reader.rs 238-295) is entered: at the
\* start of an iteration whose extent begins at or before the cursor, or
\* after the hole before the extent was zero-filled short of the end.
AfterHole(t, j) ==
    /\ j \in 1..Len(Trav(t))
    /\ EvKind(Trav(t)[j]) = "zero_hole"
    /\ CursorAfter(t, j) < End(t)

BodyIdx(t, j) == IF AfterHole(t, j) THEN EvIdx(Trav(t)[j]) ELSE NextIdx(t, j)

BodyReached(t, j) ==
    \/ AfterHole(t, j)
    \/ /\ GoesOn(t, j)
       /\ NextIdx(t, j) <= Len(extents[t])
       /\ CursorAfter(t, j) < End(t)
       /\ extents[t][NextIdx(t, j)].logical <= CursorAfter(t, j)

\* The call of scenario C: offset 0, length 100, one UNWRITTEN extent on the
\* whole range.
IsScenarioC(t) ==
    /\ req[t].offset = ScenarioC.offset
    /\ req[t].len = ScenarioC.len
    /\ extents[t] = ScenarioC.extents

C12_UnwrittenReadRaw ==
    \A t \in Threads :
        (Done(t) /\ device_path[t] # EmptyPath /\ ~req[t].options.fill_unwritten) =>
            \A j \in 0..Len(Trav(t)) :
                (BodyReached(t, j) /\ is_unwritten(extents[t][BodyIdx(t, j)].flags)) =>
                    LET k == BodyIdx(t, j)
                        x == extents[t][k]
                        c == CursorAfter(t, j)
                    IN  /\ Len(Trav(t)) >= j + 1
                        /\ EvKind(Trav(t)[j + 1]) = "dev_read"
                        /\ EvIdx(Trav(t)[j + 1]) = k
                        /\ EvPhys(Trav(t)[j + 1]) = x.physical + (c - x.logical)

\* The bytes an event of the traversal adds to the output.
EvBytes(e) ==
    IF EvKind(e) = "dev_read" THEN Max(EvActual(e), 0)
    ELSE IF EvKind(e) \in {"zero_hole", "zero_unwritten", "zero_holelike", "zero_tail"}
    THEN EvLen(e)
    ELSE 0

\* The bytes produced by the first j events of a traversal.
RECURSIVE Produced(_, _)
Produced(log, j) == IF j = 0 THEN 0 ELSE Produced(log, j - 1) + EvBytes(log[j])

\* The call of scenario A: offset 0, length 100, one plain extent at logical
\* 0, physical 1000.
IsScenarioA(t) ==
    /\ req[t].offset = ScenarioA.offset
    /\ req[t].len = ScenarioA.len
    /\ extents[t] = ScenarioA.extents

\* C13: every device read of the traversal is for an unflagged extent, starts
\* at read_start = max(cursor, extent.logical), asks for
\* min(extent.logical + extent.length, end) - read_start bytes at
\* extent.physical + (read_start - extent.logical), and its bytes land at the
\* produced-bytes position; every unflagged extent whose body is entered is
\* read so.  Scenario A reads 100 bytes at physical 1000.
C13_PhysicalOffsetLaw ==
    \A t \in Threads :
        (Done(t) /\ device_path[t] # EmptyPath) =>
            /\ \A j \in 1..Len(Trav(t)) :
                EvKind(Trav(t)[j]) = "dev_read" =>
                    LET e == Trav(t)[j]
                        x == extents[t][EvIdx(e)]
                        c == CursorAfter(t, j - 1)
                        read_start == Max(c, x.logical)
                    IN  /\ BodyReached(t, j - 1)
                        /\ BodyIdx(t, j - 1) = EvIdx(e)
                        /\ x.flags \cap ExtentFlags = {}
                        /\ EvCur(e) = read_start
                        /\ EvLen(e) = Min(x.logical + x.length, End(t)) - read_start
                        /\ EvPhys(e) = x.physical + (read_start - x.logical)
                        /\ EvPos(e) = Produced(Trav(t), j - 1)
                        /\ \A b \in 1..Len(buf[t]) :
                            (EvPos(e) < b /\ b <= EvPos(e) + EvActual(e)) =>
                                buf[t][b] = DevByte(EvPhys(e) + (b - EvPos(e) - 1))
            /\ \A j \in 0..Len(Trav(t)) :
                (BodyReached(t, j) /\ extents[t][BodyIdx(t, j)].flags \cap ExtentFlags = {}) =>
                    /\ Len(Trav(t)) >= j + 1
                    /\ EvKind(Trav(t)[j + 1]) = "dev_read"
                    /\ EvIdx(Trav(t)[j + 1]) = BodyIdx(t, j)
            /\ (IsScenarioA(t) /\ ~req[t].options.enable_cache) =>
                /\ Len(Trav(t)) >= 1
                /\ EvKind(Trav(t)[1]) = "dev_read"
                /\ EvPhys(Trav(t)[1]) = 1000
                /\ EvLen(Trav(t)[1]) = 100
                /\ EvActual(Trav(t)[1]) = 100 =>
                    ret[t] = Ok(StateNew(device_path[t], extents[t], 100, FALSE))

\* Two extents were read in full, the first from inside the extent (the
\* request starts past its logical start), the second into the output past
\* the bytes of the first.
C13_Witness ==
    /\ Done(1)
    /\ ret[1].ok
    /\ Len(Trav(1)) = 2
    /\ EvKind(Trav(1)[1]) = "dev_read"
    /\ EvKind(Trav(1)[2]) = "dev_read"
    /\ EvCur(Trav(1)[1]) > extents[1][1].logical
    /\ EvPhys(Trav(1)[1]) > extents[1][1].physical
    /\ EvPos(Trav(1)[2]) > 0
    /\ ret[1].state.bytes_read = req[1].len

\* Event j of the traversal is a device read that returned fewer bytes than
\* it asked for.
ShortRead(t, j) ==
    /\ j \in 1..Len(Trav(t))
    /\ EvKind(Trav(t)[j]) = "dev_read"
    /\ EvActual(Trav(t)[j]) >= 0
    /\ EvActual(Trav(t)[j]) < EvLen(Trav(t)[j])

\* C14: a device read that returns fewer bytes than asked (0 included) is the
\* last step of the traversal, and the call succeeds with the bytes produced
\* before it plus the bytes it returned, whatever the options: nothing is
\* read or added after it.
C14_ShortReadStops ==
    \A t \in Threads :
        (Done(t) /\ device_path[t] # EmptyPath) =>
            \A j \in 1..Len(Trav(t)) :
                ShortRead(t, j) =>
                    /\ Len(Trav(t)) = j
                    /\ ret[t] = Ok(DeviceResult(device_path[t], extents[t],
                                                Produced(Trav(t), j - 1) + EvActual(Trav(t)[j])))
                    /\ \A b \in 1..Len(buf[t]) :
                        b > Produced(Trav(t), j) => buf[t][b] = InitByte

\* The loop of the traversal ran through without an early stop: no stop at a
\* hole, an unwritten or a hole-like extent, no short or failed device read.
NoEarlyStop(t) ==
    /\ ret[t].ok
    /\ \A j \in 1..Len(Trav(t)) :
        /\ EvKind(Trav(t)[j]) \notin {"hole_stop", "unwritten_stop", "holelike_stop"}
        /\ EvKind(Trav(t)[j]) = "dev_read" => EvActual(Trav(t)[j]) = EvLen(Trav(t)[j])

\* The events of the loop: all but a trailing fill.
LoopLen(t) ==
    IF Len(Trav(t)) > 0 /\ EvKind(Trav(t)[Len(Trav(t))]) = "zero_tail"
    THEN Len(Trav(t)) - 1
    ELSE Len(Trav(t))

\* C15: when the loop consumed the extents without an early stop, the tail
\* [cursor, end) is zero-filled, giving bytes_read = length, exactly when
\* fill_holes is on and the cursor is short of end, and then no extent covers
\* any of the tail; with fill_holes off bytes_read is cursor - offset; when
\* the last extent ends at or past end nothing is added.
C15_TrailingHole ==
    \A t \in Threads :
        (Done(t) /\ device_path[t] # EmptyPath /\ NoEarlyStop(t)) =>
            LET m == LoopLen(t)
                c == CursorAfter(t, m)
                last == extents[t][Len(extents[t])]
                pos == c - req[t].offset
            IN  /\ \A j \in 1..m : EvKind(Trav(t)[j]) # "zero_tail"
                /\ c <= End(t)
                /\ (req[t].options.fill_holes /\ c < End(t)) =>
                    /\ Len(Trav(t)) = m + 1
                    /\ EvCur(Trav(t)[m + 1]) = c
                    /\ EvPos(Trav(t)[m + 1]) = pos
                    /\ EvLen(Trav(t)[m + 1]) = End(t) - c
                    /\ \A b \in 1..Len(buf[t]) : b > pos => buf[t][b] = ZeroByte
                    /\ ret[t].state.bytes_read = req[t].len
                    /\ \A i \in 1..Len(extents[t]) :
                        extents[t][i].logical + extents[t][i].length <= c
                /\ ~(req[t].options.fill_holes /\ c < End(t)) =>
                    /\ Len(Trav(t)) = m
                    /\ ret[t].state.bytes_read = pos
                    /\ \A b \in 1..Len(buf[t]) : b > pos => buf[t][b] = InitByte
                /\ last.logical + last.length >= End(t) =>
                    /\ Len(Trav(t)) = m
                    /\ ret[t].state.bytes_read = req[t].len

\* With fill_holes on, the one extent was read in full and ends short of the
\* end of the range: the tail was zero-filled.
C15_Witness ==
    /\ Done(1)
    /\ NoEarlyStop(1)
    /\ req[1].options.fill_holes
    /\ Len(Trav(1)) = 2
    /\ EvKind(Trav(1)[1]) = "dev_read"
    /\ EvKind(Trav(1)[2]) = "zero_tail"
    /\ EvLen(Trav(1)[2]) > 0
    /\ ret[1].state.bytes_read = req[1].len

\* The error read_at returns when a call of the given kind fails.
ErrOf(kind) ==
    CASE kind = "fiemap" -> "Fiemap"
      [] kind = "resolve" -> "Resolve"
      [] kind = "metadata" -> "Metadata"
      [] kind = "open" -> "Open"
      [] kind = "dev_read" -> "DevRead"
      [] kind = "file_read" -> "FileRead"
      [] OTHER -> "none"

\* C16: a failed call to the extent provider, the device resolver, the
\* metadata or open of the device cache, or a positioned read is the last
\* thing the read does: the read has returned, with that error and no
\* result, nothing ran after the failed call and it was not called again.
C16_ErrorsPropagate ==
    \A t \in Threads :
        \A k \in 1..Len(io[t]) :
            EvActual(io[t][k]) = -1 =>
                /\ k = Len(io[t])
                /\ Done(t)
                /\ ret[t] = Err(ErrOf(EvKind(io[t][k])))
                /\ ~ret[t].ok
                /\ ret[t].state.bytes_read = 0

\* The device read of the second extent failed after the first extent's bytes
\* were in the buffer: the call returned the error.
C16_Witness ==
    /\ Done(1)
    /\ ret[1] = Err("DevRead")
    /\ Len(Trav(1)) = 2
    /\ EvKind(Trav(1)[1]) = "dev_read"
    /\ EvActual(Trav(1)[1]) > 0
    /\ EvActual(Trav(1)[2]) = -1
    /\ buf[1][1] = DevByte(extents[1][1].physical)

\* The call of thread t run alone on a buffer of its own, the device
\* returning all the bytes it is asked for.
Alone(t) ==
    read_from_device(req[t].options, [k \in 1..req[t].len |-> InitByte], req[t].offset,
                     extents[t], [i \in 1..Len(extents[t]) |-> req[t].len])

\* C17: whatever the interleaving of the calls that share the cached handle,
\* a call that succeeds returns the bytes_read, the output bytes and the
\* used_fallback of the same call run alone; the calls hold the one handle of
\* the cache entry, and no call moves the handle's file position.
C17_InterleavingIndependent ==
    /\ \A t \in Threads :
        (Done(t) /\ ret[t].ok) =>
            /\ Alone(t).status = "ok"
            /\ ret[t].state.bytes_read = Alone(t).n
            /\ buf[t] = Alone(t).buf
            /\ ret[t].state.used_fallback = FALSE
            /\ ret[t] = Ok(DeviceResult(device_path[t], extents[t], Alone(t).n))
    /\ \A t \in Threads :
        device[t].kind = "cached" => device[t].h \in open_handles
    /\ \A t \in Threads :
        (pc[t] \in {"have_handle", "walk", "tail"}) => device[t] = Cached(cache[req[t].dev])
    /\ \A h \in Handles : fpos[h] = 0

\* Two calls on overlapping ranges both returned, one after two device reads
\* and one after one, all through the same cached handle.
C17_Witness ==
    /\ Done(1) /\ ret[1].ok
    /\ Done(2) /\ ret[2].ok
    /\ goc_ret[1] # 0
    /\ goc_ret[1] = goc_ret[2]
    /\ Count(io[1], "dev_read") = 2
    /\ Count(io[2], "dev_read") = 1
    /\ req[1].offset # req[2].offset
    /\ req[1].offset < req[2].offset + req[2].len
    /\ req[2].offset < req[1].offset + req[1].len

\* The field a setter is named after.
FieldOf(o, setter) ==
    CASE setter = "with_cache" -> o.enable_cache
      [] setter = "with_fill_holes" -> o.fill_holes
      [] setter = "with_zero_unwritten" -> o.fill_unwritten
      [] setter = "with_allow_fallback" -> o.allow_fallback
      [] setter = "with_read_exact" -> o.read_exact
      [] setter = "with_dry_run" -> o.dry_run

\* The calls of a setter in a chain, and the value given last.
CallsOf(chain, setter) == {k \in 1..Len(chain) : EvKind(chain[k]) = setter}

LastGiven(chain, setter) ==
    LET last == CHOOSE k \in CallsOf(chain, setter) : \A j \in CallsOf(chain, setter) : j <= k
    IN  EvActual(chain[last]) = 1

\* C19: the default options are enable_cache on and every other flag off,
\* and after any chain of setters each field holds the value given last to
\* its setter, the default if the setter was not called.
C19_OptionsBuilder ==
    \A t \in Threads :
        pc[t] = "idle" =>
            /\ DOMAIN req[t].options = {"enable_cache", "fill_holes", "fill_unwritten",
                                        "allow_fallback", "read_exact", "dry_run"}
            /\ io[t] = <<>> =>
                /\ req[t].options.enable_cache = TRUE
                /\ req[t].options.fill_holes = FALSE
                /\ req[t].options.fill_unwritten = FALSE
                /\ req[t].options.allow_fallback = FALSE
                /\ req[t].options.read_exact = FALSE
                /\ req[t].options.dry_run = FALSE
            /\ \A setter \in Setters :
                FieldOf(req[t].options, setter) =
                    IF CallsOf(io[t], setter) = {}
                    THEN (setter = "with_cache")
                    ELSE LastGiven(io[t], setter)

\* with_read_exact(true) and then with_cache(false) were called: read_exact
\* is on, enable_cache off, dry_run as by default.
C19_Witness ==
    /\ pc[1] = "idle"
    /\ Len(io[1]) = MaxChain
    /\ EvKind(io[1][1]) = "with_read_exact"
    /\ EvActual(io[1][1]) = 1
    /\ EvKind(io[1][MaxChain]) = "with_cache"
    /\ EvActual(io[1][MaxChain]) = 0
    /\ req[1].options.read_exact
    /\ ~req[1].options.enable_cache
    /\ ~req[1].options.dry_run

\* C18: with read_exact on, a read that produces fewer bytes than the buffer
\* holds (a stop at a hole or an unwritten extent, a short device read)
\* returns an error; with read_exact off it returns the bytes produced as a
\* success.
C18_ReadExact ==
    \A t \in Threads :
        (Done(t) /\ device_path[t] # EmptyPath
                 /\ \A j \in 1..Len(Trav(t)) : EvActual(Trav(t)[j]) # -1) =>
            LET produced == Produced(Trav(t), Len(Trav(t)))
            IN  IF req[t].options.read_exact /\ produced < req[t].len
                THEN ~ret[t].ok
                ELSE ret[t] = Ok(DeviceResult(device_path[t], extents[t], produced))

\* A sequence without its i-th element.
Without(seq, i) == SubSeq(seq, 1, i - 1) \o SubSeq(seq, i + 1, Len(seq))

\* Extent i of the call is flagged UNKNOWN or DELALLOC and not UNWRITTEN.
HoleLike(t, i) ==
    /\ i \in 1..Len(extents[t])
    /\ is_unknown(extents[t][i].flags) \/ is_delalloc(extents[t][i].flags)
    /\ ~is_unwritten(extents[t][i].flags)

\* What the device did at each read, as far as the call's I/O tells.
OutcomesSeen(t) ==
    {outs \in DeviceOutcomes(t) :
        \A j \in 1..Len(Trav(t)) :
            EvKind(Trav(t)[j]) = "dev_read" =>
                IF EvActual(Trav(t)[j]) = -1
                THEN outs[EvIdx(Trav(t)[j])] = -1
                ELSE Min(outs[EvIdx(Trav(t)[j])], EvLen(Trav(t)[j])) = EvActual(Trav(t)[j])}

\* What the call returned: whether it is a success, bytes_read, the buffer.
Returned(t) ==
    [ok |-> ret[t].ok, err |-> ret[t].err, bytes_read |-> ret[t].state.bytes_read,
     buf |-> buf[t]]

\* The same call on the extents with extent i left out, a gap in its place.
WithGap(t, i, outs) ==
    read_at_outcome(req[t].options, [k \in 1..req[t].len |-> InitByte], req[t].offset,
                    Without(extents[t], i), Without(outs, i))

\* C20 as stated: whatever the extent list, a call returns what it returns
\* with a gap in the place of an UNKNOWN or DELALLOC extent, and reads the
\* device for no such extent.
C20_HoleLikeIsHole ==
    \A t \in Threads :
        (Done(t) /\ device_path[t] # EmptyPath) =>
            \A i \in 1..Len(extents[t]) :
                HoleLike(t, i) =>
                    /\ \A outs \in OutcomesSeen(t) : Returned(t) = WithGap(t, i, outs)
                    /\ \A j \in 1..Len(Trav(t)) :
                        EvKind(Trav(t)[j]) = "dev_read" => EvIdx(Trav(t)[j]) # i

\* C20, amended: the same for an UNKNOWN or DELALLOC extent that is not the
\* only extent of the list; when it is the only one the call stops with 0
\* bytes (fill_holes off) or zero-fills the whole buffer (fill_holes on),
\* where the gap leaves no extent and the call is an UnexpectedEof error.
C20_HoleLikeIsHoleAmongOthers ==
    \A t \in Threads :
        (Done(t) /\ device_path[t] # EmptyPath) =>
            \A i \in 1..Len(extents[t]) :
                HoleLike(t, i) =>
                    /\ \A j \in 1..Len(Trav(t)) :
                        EvKind(Trav(t)[j]) = "dev_read" => EvIdx(Trav(t)[j]) # i
                    /\ Len(extents[t]) > 1 =>
                        \A outs \in OutcomesSeen(t) : Returned(t) = WithGap(t, i, outs)
                    /\ Len(extents[t]) = 1 =>
                        /\ ret[t] = Ok(DeviceResult(device_path[t], extents[t],
                                                    IF req[t].options.fill_holes
                                                    THEN req[t].len ELSE 0))
                        /\ \A b \in 1..Len(buf[t]) :
                            buf[t][b] = IF req[t].options.fill_holes THEN ZeroByte ELSE InitByte
                        /\ \A outs \in OutcomesSeen(t) :
                            WithGap(t, i, outs).err = "UnexpectedEof"

\* With fill_holes on, a DELALLOC extent between the start of the range and
\* a normal extent was zero-filled and the normal extent read after it.
C20_Witness ==
    /\ Done(1)
    /\ ret[1].ok
    /\ req[1].options.fill_holes
    /\ Len(extents[1]) = 2
    /\ HoleLike(1, 1)
    /\ is_delalloc(extents[1][1].flags)
    /\ Len(Trav(1)) = 2
    /\ EvKind(Trav(1)[1]) = "zero_holelike"
    /\ EvKind(Trav(1)[2]) = "dev_read"
    /\ EvActual(Trav(1)[2]) > 0
    /\ ret[1].state.bytes_read = req[1].len

\* C21: for a non-empty buffer, the file itself is read, and used_fallback
\* is set, only if allow_fallback is on and every byte of the range lies in
\* a plain extent; with allow_fallback off no read of the file is ever
\* issued and a call that got extents goes on to resolve the device,
\* whatever the extents are.
C21_FallbackOnlyWhenAllowed ==
    \A t \in Threads :
        req[t].len > 0 =>
            /\ (\/ pc[t] = "fallback"
                \/ Count(io[t], "file_read") > 0
                \/ Done(t) /\ ret[t].ok /\ ret[t].state.used_fallback) =>
                   /\ req[t].options.allow_fallback
                   /\ FullyCommitted(extents[t], req[t].offset, req[t].len)
            /\ ~req[t].options.allow_fallback =>
                   /\ pc[t] # "fallback"
                   /\ Count(io[t], "file_read") = 0
                   /\ (extents[t] # <<>> /\ pc[t] # "check") =>
                          (pc[t] = "resolve" \/ Count(io[t], "resolve") > 0)
                   /\ (Done(t) /\ ret[t].ok) =>
                          /\ ~ret[t].state.used_fallback
                          /\ Count(io[t], "resolve") > 0

\* With allow_fallback off, a call whose extents were eligible read the whole
\* range from the device.
C21_Witness ==
    /\ Done(1)
    /\ ~req[1].options.allow_fallback
    /\ FullyCommitted(extents[1], req[1].offset, req[1].len)
    /\ ret[1].ok
    /\ ~ret[1].state.used_fallback
    /\ ret[1].state.bytes_read = req[1].len
    /\ Count(io[1], "dev_read") > 0
    /\ Count(io[1], "file_read") = 0

\* The handles the map's entries hold.
CachedHandles == {cache[d] : d \in DevIds} \ {0}

\* C22: no step of a read with enable_cache off, open_device_uncached
\* included, reads or changes the device cache (the map, its lock and the
\* count of cached opens are as before, and the call has done no lookup and
\* no insert), and once such a read has returned, with a result, an early
\* stop or an error, its private handle is closed: the only handles open are
\* those of the map's entries.
C22_UncachedLeavesCacheAlone ==
    /\ [][\A t \in Threads :
            (pc[t] # "idle" /\ pc'[t] # pc[t] /\ ~req[t].options.enable_cache) =>
                (cache' = cache /\ lock' = lock /\ opens' = opens)]_vars
    /\ [](\A t \in Threads :
            (pc[t] # "idle" /\ ~req[t].options.enable_cache) =>
                /\ Count(io[t], "cache_get") = 0
                /\ Count(io[t], "cache_insert") = 0
                /\ goc_ret[t] = 0
                /\ device[t].kind # "cached"
                /\ Done(t) => (device[t] = NoDevice /\ open_handles = CachedHandles))

\* The map holds the entry an earlier read made; a read with enable_cache
\* off opened its own handle on the same device, failed at the device, and
\* has returned: the entry's handle is the only one open.
C22_Witness ==
    /\ Done(1)
    /\ ~req[1].options.enable_cache
    /\ ret[1] = Err("DevRead")
    /\ cache[req[1].dev] # 0
    /\ open_handles = {cache[req[1].dev]}
    /\ \E k \in 1..Len(io[1]) : EvKind(io[1][k]) = "open" /\ EvActual(io[1][k]) = 0

\* get_or_create has returned to thread t: a handle, or an error.
GocReturned(t) == goc_ret[t] # 0 \/ (Done(t) /\ ~ret[t].ok)

\* C23: a thread that asks for the write lock holds no read lock, and with
\* every thread in a cached read at once, under fair scheduling, each call
\* of get_or_create returns a handle or an error and each read returns.
C23_NoDeadlock ==
    /\ [](\A t \in Threads :
            pc[t] \in {"goc_resolve", "wlock", "recheck", "open", "insert"} =>
                t \notin lock.readers)
    /\ \A t \in Threads : (pc[t] = "goc") ~> GocReturned(t)
    /\ \A t \in Threads : (pc[t] = "handle") ~> Done(t)

\* Every thread has missed the first lookup and waits for the write lock,
\* which another holds.
C23_Witness ==
    /\ lock.writer # 0
    /\ lock.readers = {}
    /\ \A t \in Threads : t # lock.writer => pc[t] = "wlock"
    /\ \A t \in Threads : Count(io[t], "cache_get") >= 1

\* C24: when the open inside get_or_create fails, the call returns the
\* error, the write lock it held is free, and the map, the open handles and
\* the count of opens are as before, the device id still without an entry;
\* and a call that finds no entry at its second look goes on to open the
\* device, so a later call for the id opens again.
C24_FailedOpenLeavesNoEntry ==
    [][\A t \in Threads :
         /\ (pc[t] = "open" /\ pc'[t] = "done") =>
               /\ ret'[t] = Err("Open")
               /\ goc_ret'[t] = 0
               /\ lock.writer = t
               /\ lock'.writer = 0
               /\ cache' = cache
               /\ cache'[req[t].dev] = 0
               /\ open_handles' = open_handles
               /\ opens' = opens
         /\ (pc[t] = "recheck" /\ pc'[t] # "recheck" /\ cache[req[t].dev] = 0) =>
               pc'[t] = "open"]_vars

\* The open of one thread failed for a device id; another thread, which took
\* the write lock after that, found no entry for the id and is at its own
\* open.
C24_Witness ==
    \E t \in Threads, u \in Threads :
        /\ Done(u)
        /\ ret[u] = Err("Open")
        /\ pc[t] = "open"
        /\ req[t].dev = req[u].dev
        /\ lock.writer = t
        /\ cache[req[t].dev] = 0
        /\ opens[req[t].dev] = 0

\* Thread t is in read_from_device or has left it.
InWalk(t) == pc[t] \in {"walk", "tail", "done"}

\* bytes_read = current_offset - offset, and offset <= current_offset <= end.
CursorLaw(t) ==
    /\ walk[t].n = walk[t].cur - req[t].offset
    /\ req[t].offset <= walk[t].cur
    /\ walk[t].cur <= End(t)

\* The last step of the traversal was the fill of the trailing hole.
TailFilled(t) ==
    /\ Done(t)
    /\ Trav(t) # <<>>
    /\ EvKind(Trav(t)[Len(Trav(t))]) = "zero_tail"

\* Cell k of the output holds what the file has at offset + k - 1: the
\* device's byte under a plain extent, or a zero.
CellOfRange(t, k) ==
    \/ buf[t][k] = ZeroByte
    \/ \E i \in 1..Len(extents[t]) :
        LET x == extents[t][i]
            l == req[t].offset + k - 1
        IN  /\ x.flags \cap ExtentFlags = {}
            /\ x.logical <= l
            /\ l < x.logical + x.length
            /\ buf[t][k] = DevByte(x.physical + (l - x.logical))

\* bytes_read is within the buffer, every write of the traversal lies in the
\* buffer at the place of its logical offset, no length is negative (nothing
\* panics), and the first bytes_read cells hold the range from offset on, the
\* rest untouched.
OutputLaw(t) ==
    /\ walk[t].n <= req[t].len
    /\ ret[t] # Err("panic")
    /\ \A j \in 1..Len(Trav(t)) :
        /\ EvLen(Trav(t)[j]) >= 0
        /\ EvPos(Trav(t)[j]) = EvCur(Trav(t)[j]) - req[t].offset
        /\ EvPos(Trav(t)[j]) + EvLen(Trav(t)[j]) <= req[t].len
    /\ \A k \in 1..req[t].len :
        IF k <= walk[t].n THEN CellOfRange(t, k) ELSE buf[t][k] = InitByte
    /\ (Done(t) /\ ret[t].ok) => ret[t].state.bytes_read = walk[t].n

\* C25 as stated: through the traversal, after every step, the trailing fill
\* too, bytes_read = current_offset - offset and offset <= current_offset <=
\* end; bytes_read is within the buffer, every write lies in the buffer,
\* nothing underflows, and the first bytes_read cells hold the range from
\* offset on.
C25_CursorLawThroughout ==
    \A t \in Threads : InWalk(t) => (CursorLaw(t) /\ OutputLaw(t))

\* C25, amended: the same after every step of the loop (zero-fill, full
\* read, short read); the fill of the trailing hole adds end - current_offset
\* to bytes_read and leaves current_offset where it was, short of end, so
\* that after it bytes_read = end - offset, the whole buffer.
C25_CursorLawInLoop ==
    \A t \in Threads :
        InWalk(t) =>
            /\ OutputLaw(t)
            /\ ~TailFilled(t) => CursorLaw(t)
            /\ TailFilled(t) =>
                  /\ walk[t].n = End(t) - req[t].offset
                  /\ req[t].offset <= walk[t].cur
                  /\ walk[t].cur < End(t)
                  /\ walk[t].n - EvLen(Trav(t)[Len(Trav(t))]) = walk[t].cur - req[t].offset

\* With fill_holes on, the hole before the extent was zero-filled, the read
\* of the extent came back short, and the rest was filled as a trailing hole.
C25_Witness ==
    /\ Done(1)
    /\ ret[1].ok
    /\ Len(Trav(1)) = 3
    /\ EvKind(Trav(1)[1]) = "zero_hole"
    /\ EvKind(Trav(1)[2]) = "dev_read"
    /\ EvActual(Trav(1)[2]) > 0
    /\ EvActual(Trav(1)[2]) < EvLen(Trav(1)[2])
    /\ EvKind(Trav(1)[3]) = "zero_tail"
    /\ ret[1].state.bytes_read = req[1].len

Expected(t, k) ==
    LET l == req[t].offset + k - 1
        covering == {i \in 1..Len(extents[t]) :
                        /\ extents[t][i].flags \cap ExtentFlags = {}
                        /\ extents[t][i].logical <= l
                        /\ l < extents[t][i].logical + extents[t][i].length}
    IN  IF covering = {} THEN ZeroByte
        ELSE LET x == extents[t][CHOOSE i \in covering : TRUE]
             IN  DevByte(x.physical + (l - x.logical))

\* Every device read of the call returned all it was asked for.
NoShortRead(t) ==
    \A j \in 1..Len(Trav(t)) :
        EvKind(Trav(t)[j]) = "dev_read" => EvActual(Trav(t)[j]) = EvLen(Trav(t)[j])

\* C27: with fill_holes and fill_unwritten on, a read from the device on a
\* non-empty extent list with no short read and no error returns bytes_read
\* = the buffer's length, the buffer holding the device's byte wherever a
\* plain extent covers the position and a zero wherever none does.
C27_FullReadFillsBuffer ==
    \A t \in Threads :
        (/\ Done(t)
         /\ device_path[t] # EmptyPath
         /\ req[t].options.fill_holes
         /\ req[t].options.fill_unwritten
         /\ extents[t] # <<>>
         /\ NoShortRead(t)) =>
            /\ ret[t] = Ok(DeviceResult(device_path[t], extents[t], req[t].len))
            /\ \A k \in 1..req[t].len : buf[t][k] = Expected(t, k)

\* An unwritten extent, a plain extent and a trailing hole: the buffer holds
\* a zero, the device's byte, and zeros to its end.
C27_Witness ==
    /\ Done(1)
    /\ req[1].options.fill_holes
    /\ req[1].options.fill_unwritten
    /\ Len(Trav(1)) = 3
    /\ EvKind(Trav(1)[1]) = "zero_unwritten"
    /\ EvKind(Trav(1)[2]) = "dev_read"
    /\ EvActual(Trav(1)[2]) = EvLen(Trav(1)[2])
    /\ EvKind(Trav(1)[3]) = "zero_tail"
    /\ ret[1].ok
    /\ ret[1].state.bytes_read = req[1].len
    /\ buf[1][1] = ZeroByte
    /\ buf[1][2] = DevByte(extents[1][2].physical)
    /\ buf[1][req[1].len] = ZeroByte

\* The tool has made a call of blk_read_at_opt.
CliCalled == cli.pc \in {"loop", "exit", "error", "panic"} /\ cli.calls > 0

\* C28: every call of blk_read_at_opt is at an offset and with a buffer
\* length that are multiples of the alignment, the length not zero and not
\* above the chunk buffer; the loop ends (it panics only on an overflowing
\* sum in a build that checks); the output never gets more than length
\* bytes; and every write starts skip bytes into the chunk, skip being the
\* offset's distance from its aligned start in the first chunk and 0 after,
\* lies within the chunk, and carries on at the requested offset plus what
\* was written before.
C28_ChunkLoop ==
    /\ [](CliCalled =>
            /\ cli.call.offset % cli.alignment = 0
            /\ cli.call.size % cli.alignment = 0
            /\ cli.call.size > 0
            /\ cli.call.size <= DEFAULT_CHUNK_SIZE
            /\ cli.total_bytes_read <= cli.length
            /\ cli.write.before + cli.write.n <= cli.total_bytes_read
            /\ cli.write.n > 0 =>
                  /\ cli.write.skip + cli.write.n <= DEFAULT_CHUNK_SIZE
                  /\ cli.write.skip = IF cli.write.at = cli.aligned_offset
                                       THEN cli.offset - cli.aligned_offset ELSE 0
                  /\ cli.write.before = 0 <=> cli.write.at = cli.aligned_offset
                  /\ (cli.write.at + cli.write.skip) % Word
                        = (cli.offset + cli.write.before) % Word
            /\ cli.pc = "panic" => cli.checks)
    /\ [](cli.pc = "panic" =>
            /\ cli.checks
            /\ \/ cli.length + cli.offset_adjustment + cli.alignment >= Word
               \/ cli.current_aligned_offset + DEFAULT_CHUNK_SIZE >= Word)
    /\ <>(cli.pc \in {"exit", "error", "panic"})

\* The offset is not aligned and the range takes more than two chunks: the
\* third call has been made and the write of the first chunk skipped the
\* bytes before the offset.
C28_Witness ==
    /\ cli.pc \in {"loop", "exit"}
    /\ cli.calls = 3
    /\ cli.offset_adjustment > 0
    /\ cli.alignment > 1
    /\ cli.call.bytes_read > 0
    /\ cli.total_bytes_read = cli.length
    /\ cli.write.before > 0

====
